---------------------------- MODULE Spec2Model ----------------------------
(***************************************************************************)
(* Verification model of the poetry ingestion pipeline                     *)
(* (src/poetry_service/scripts/import_data.py).                            *)
(*                                                                         *)
(* Three specifications share the module:                                  *)
(*   Spec      run_import over a small corpus, several runs in a row, with *)
(*             the checkpoint log and the relational store;                *)
(*   SpecEmb   one call of get_batch_embeddings against the remote         *)
(*             embedding service;                                          *)
(*   SpecPool  the worker-pool fan-out of one poem batch inside            *)
(*             process_and_insert_batch.                                   *)
(***************************************************************************)
EXTENDS Integers, Sequences, FiniteSets, TLC

(***************************************************************************)
(* Bounds of the model.                                                    *)
(***************************************************************************)
\* number of source files of the corpus (load_json_files returns them sorted)
NumFiles == 2
\* largest number of records of one file that process_poem_data accepts
MaxRecs == 2
\* number of consecutive runs of run_import that are explored
MaxRuns == 2
\* db_batch_size (100 in the program), scaled down
DbBatchSize == 1
\* longest argument list of get_batch_embeddings that is explored
MaxTexts == 3
\* largest number of sentences of one poem batch that is explored
MaxSentences == 5
\* embedding_api_batch_size (10 in the program), scaled down
ApiBatchSize == 2
\* max_workers (MAX_WORKERS of the environment, 8 by default), scaled down
MaxWorkers == 2

\* Python's None as an entry of a list of optional vectors; like None it is
\* falsy
None == <<>>

Range(s) == {s[i] : i \in 1..Len(s)}

Min(a, b) == IF a < b THEN a ELSE b

(***************************************************************************)
(* State of run_import.                                                    *)
(***************************************************************************)
VARIABLES
    corpus,      \* file -> what the file holds (fixed during a behaviour)
    log,         \* processed_files.log: the sequence of its lines
    db,          \* committed rows of dynasties, authors, poems, lines
    tx,          \* rows written in the open transaction of the connection
    connOpen,    \* the psycopg2 connection is usable
    pc,          \* position of run_import
    run,         \* number of runs started
    todo,        \* files_to_process still ahead, in order
    pos,         \* accepted records of the current file already batched
    aborted,     \* the current run ended by an exception leaving run_import
    \* history
    logAtStart,  \* the log as load_processed_files read it at the run's start
    logEnd1,     \* the log when the first run ended
    toProcess,   \* files_to_process as computed at the run's start
    attempted,   \* files the current run opened
    failedIn,    \* files in which the current run met a failure
    touched,     \* files for which the current run called the embedding
                 \* service or wrote to the database
    rolledBack,  \* files one of whose batches was rolled back (last attempt)
    lastFail,    \* where the last batch call failed, if the call was the
                 \* last step taken
    snap,        \* committed store before the last batch call
    dbAtStart,   \* committed store at the run's start
    crashed,     \* the file before whose checkpoint the process was killed
                 \* after its last batch had committed, and the run
    lastOutcome  \* "none" | "committed" | "failed": the last batch call

runVars == <<corpus, log, db, tx, connOpen, pc, run, todo, pos, aborted,
             logAtStart, logEnd1, toProcess, attempted, failedIn, touched,
             rolledBack, lastFail, snap, dbAtStart, crashed, lastOutcome>>

(***************************************************************************)
(* State of one call of get_batch_embeddings.                              *)
(***************************************************************************)
VARIABLES
    texts,        \* the argument
    epc,          \* "off" | "call" | "attempt" | "rehydrate" | "returned" | "raised"
    attempt,      \* the loop variable of the retry loop
    requests,     \* the 'input' list of every request sent, in order
    resps,        \* what the service answered to each request, in order
    sleeps,       \* the argument of every time.sleep, in order
    api_results,  \* the local of that name
    body,         \* the 'data' items of the response that was accepted
    result        \* what the call returned, or that it raised

embVars == <<texts, epc, attempt, requests, resps, sleeps, api_results, body,
             result>>

(***************************************************************************)
(* State of the embedding fan-out of one poem batch.                       *)
(***************************************************************************)
VARIABLES
    all_sentences,    \* the flattened sentences of the batch
    ppc,              \* "off" | "idle" | "start" | "collect" | "merged" |
                      \* "skipped" | "failed" | "ended"
    fstate,           \* per sub-batch: "queued" | "running" | "done"
    fresult,          \* per sub-batch: what its future holds
    finished,         \* sub-batch indices in the order the workers finished
    arrival,          \* sub-batch indices in the order as_completed gave them
    results_in_order, \* the local of that name
    all_embeddings,   \* the local of that name
    batch_no,         \* calls of process_and_insert_batch begun on the connection
    conn_tx,          \* the connection's transaction: "none" | "open" |
                      \* "committed" | "rolledback" | "lost"
    issued            \* history: who issued database statements in which call

poolVars == <<all_sentences, ppc, fstate, fresult, finished, arrival,
              results_in_order, all_embeddings, batch_no, conn_tx, issued>>

(***************************************************************************)
(* State of one call of split_sentences.                                   *)
(***************************************************************************)
VARIABLES
    text,         \* the argument: a string as the sequence of its characters
    spc,          \* "off" | "call" | "returned"
    sentences     \* what the call returned

splitVars == <<text, spc, sentences>>

(***************************************************************************)
(* State of a sequence of calls of process_and_insert_batch, with the rows *)
(* of the four tables in full.                                             *)
(***************************************************************************)
VARIABLES
    tables,        \* committed rows of dynasties, authors, poems, lines
    lpc,           \* "off" | "ready"
    calls,         \* number of calls made
    poem_batch,    \* the argument of the last call
    sentenceList,  \* all_sentences of the last call
    embeddings,    \* all_embeddings of the last call (or that the fan-out raised)
    committed,     \* the last call reached conn.commit() and it succeeded
    tablesBefore,  \* the committed rows before the last call
    complete       \* no database statement and no embedding failed so far

loadVars == <<tables, lpc, calls, poem_batch, sentenceList, embeddings,
              committed, tablesBefore, complete>>

(***************************************************************************)
(* State of the import of one source file, from the parsed document to the *)
(* committed rows (which are `tables` above).                              *)
(***************************************************************************)
VARIABLES
    doc,                 \* json.load of the file
    path,                \* the file's path
    author_dynasty_map,  \* self.author_dynasty_map
    dpc,                 \* "off" | "extract" | "process" | "load" | "marked" | "raised"
    poems_list,          \* the extracted records, each with its source item
    file_level_author,   \* the second component of the extraction's result
    outcomes             \* per extracted record what process_poem_data returned

docVars == <<doc, path, author_dynasty_map, dpc, poems_list,
             file_level_author, outcomes>>

(***************************************************************************)
(* State of the start of the importer: the pre-scan of __init__ and the    *)
(* file loop of the run_import that follows it, over whole documents (the  *)
(* frequency table is `author_dynasty_map` and the committed rows are      *)
(* `tables` above).                                                        *)
(***************************************************************************)
VARIABLES
    scanFiles,         \* load_json_files(): per file how it reads and its document
    checkpoint,        \* the files whose path is in processed_files.log
    scpc,              \* "off" | "scan" | "ready" | "import" | "done" | "raised"
    scanned,           \* files the loop of line 116 has gone through
    author_dynasties,  \* the local of that name, as the list of its pairs
    loaded,            \* files the loop of line 438 has gone through
    mapAtReady         \* history: the table when __init__ returned

scanVars == <<scanFiles, checkpoint, scpc, scanned, author_dynasties, loaded,
              mapAtReady>>

(***************************************************************************)
(* State of the retrieval service: the store it queries and one request.   *)
(***************************************************************************)
VARIABLES
    sdb,              \* the ids of the rows of poems, and per poem id the
                      \* embeddings of the rows of lines with that poem_id
    api_key,          \* ALI_API_KEY is configured (embedding_client exists)
    request,          \* the request being answered
    qpc,              \* "off" | "idle" | "embed" | "query" | "done"
    keyword_list,     \* the local of that name
    phrase_embeddings,  \* per phrase what get_embedding returned
    query_embedding,  \* the local of that name
    response          \* the answer: its status, total and results

searchVars == <<sdb, api_key, request, qpc, keyword_list, phrase_embeddings,
                query_embedding, response>>

(***************************************************************************)
(* State of the connection pool of the retrieval service and of the        *)
(* requests that take connections from it; state of one session of the     *)
(* database cleaner.                                                       *)
(***************************************************************************)
VARIABLES
    pool_used,     \* the connections of db_manager.pool that are checked out
    handlers,      \* per request: its endpoint, position, connection, and
                   \* how often it called putconn
    cdb,           \* the rows of poems and lines the cleaner works on
    data_status,   \* `status`: what check_data_status returned at line 185
    choice,        \* the answer to the menu of main
    confirm,       \* the answer to the confirmation, were it asked
    cpc,           \* "off" | "start" | "checked" | "done" | "raised"
    cleaned,       \* clean_incomplete_data was run
    truncated_at   \* history: the number of runs of run_import made when
                   \* truncate_all_data emptied the store (0: it did not)

toolVars == <<pool_used, handlers, cdb, data_status, choice, confirm, cpc,
              cleaned, truncated_at>>

\* the state of the operations on documents, sentences and rows, of the
\* retrieval service and of the tools
dataVars == <<splitVars, loadVars, docVars, scanVars, searchVars, toolVars>>

vars == <<runVars, embVars, poolVars, dataVars>>

Files == 1..NumFiles

\* What a source file holds: "bad" (open/json.load/extraction raises),
\* "empty" (_extract_poems_from_data yields no record), or the number of its
\* records that process_poem_data accepts (0: every record is rejected).
FileShapes ==
    {[kind |-> "bad", n |-> 0], [kind |-> "empty", n |-> 0]}
    \cup {[kind |-> "recs", n |-> k] : k \in 0..MaxRecs}

\* load_json_files: the sorted list of the corpus files
load_json_files == [i \in 1..NumFiles |-> i]

EmptyStore == [dynasties |-> {}, authors |-> {}, poems |-> {}, lines |-> {}]

StoreUnion(a, b) ==
    [dynasties |-> a.dynasties \cup b.dynasties,
     authors   |-> a.authors \cup b.authors,
     poems     |-> a.poems \cup b.poems,
     lines     |-> a.lines \cup b.lines]

\* the log is not read (every file counts as new)
LoadNothing(l) == {}

\* load_processed_files: the set of the log's lines (lines 489-492)
load_processed_files(l) == Range(l)

\* the list without the filter on the log
FilesToProcessSkipNothing(l) == load_json_files

\* files_to_process = [f for f in self.load_json_files()
\*                     if str(f) not in processed_files]   (line 432)
files_to_process(l) ==
    LET keep(f) == f \notin load_processed_files(l)
    IN  SelectSeq(load_json_files, keep)

\* mark_file_as_processed: append one line
mark_file_as_processed(l, f) == Append(l, f)


\* no statement of a batch call failed
NoFail == [step |-> "none", kind |-> "none"]

\* the process was not killed between a file's last commit and its checkpoint
NoCrash == [file |-> 0, run |-> 0]

\* run_import not started (for the specifications of the other operations)
RunOff ==
    /\ corpus = [f \in Files |-> [kind |-> "empty", n |-> 0]]
    /\ log = <<>>
    /\ db = EmptyStore
    /\ tx = EmptyStore
    /\ connOpen = FALSE
    /\ pc = "off"
    /\ run = 0
    /\ todo = <<>>
    /\ pos = 0
    /\ aborted = FALSE
    /\ logAtStart = <<>>
    /\ logEnd1 = <<>>
    /\ toProcess = <<>>
    /\ attempted = {}
    /\ failedIn = {}
    /\ touched = {}
    /\ rolledBack = {}
    /\ lastFail = NoFail
    /\ snap = EmptyStore
    /\ dbAtStart = EmptyStore
    /\ crashed = NoCrash
    /\ lastOutcome = "none"

SplitOff ==
    /\ text = <<>>
    /\ spc = "off"
    /\ sentences = <<>>

EmptyTables == [dynasties |-> {}, authors |-> {}, poems |-> {}, lines |-> {}]

LoadOff ==
    /\ tables = EmptyTables
    /\ lpc = "off"
    /\ calls = 0
    /\ poem_batch = <<>>
    /\ sentenceList = <<>>
    /\ embeddings = [raised |-> FALSE, list |-> <<>>]
    /\ committed = FALSE
    /\ tablesBefore = EmptyTables
    /\ complete = TRUE

DocOff ==
    /\ doc = <<>>
    /\ path = <<>>
    /\ author_dynasty_map = <<>>
    /\ dpc = "off"
    /\ poems_list = <<>>
    /\ file_level_author = <<>>
    /\ outcomes = <<>>

ScanOff ==
    /\ scanFiles = <<>>
    /\ checkpoint = {}
    /\ scpc = "off"
    /\ scanned = 0
    /\ author_dynasties = <<>>
    /\ loaded = 0
    /\ mapAtReady = <<>>

\* no answer yet
NoResponse == [status |-> 0, total |-> 0, results |-> <<>>, rows |-> <<>>]

\* no request yet
NoRequest ==
    [kind |-> "none", q |-> <<>>, limit |-> 0, offset |-> 0,
     engine |-> [fulltext |-> {}, fuzzy |-> {}, ts_rank |-> <<>>,
                 similarity |-> <<>>]]

SearchOff ==
    /\ sdb = [poems |-> {}, lines |-> <<>>]
    /\ api_key = FALSE
    /\ request = NoRequest
    /\ qpc = "off"
    /\ keyword_list = <<>>
    /\ phrase_embeddings = <<>>
    /\ query_embedding = <<>>
    /\ response = NoResponse

\* check_data_status has not run
NoStatus ==
    [poems_count |-> 0, lines_count |-> 0, lines_with_embedding |-> 0,
     orphan_poems |-> 0, dimension_stats |-> {}]

ToolOff ==
    /\ pool_used = {}
    /\ handlers = <<>>
    /\ cdb = [poems |-> {}, lines |-> <<>>]
    /\ data_status = NoStatus
    /\ choice = "none"
    /\ confirm = "none"
    /\ cpc = "off"
    /\ cleaned = FALSE
    /\ truncated_at = 0

MoreOff == ScanOff /\ SearchOff /\ ToolOff

DataOff == SplitOff /\ LoadOff /\ DocOff /\ MoreOff

PoolOff ==
    /\ all_sentences = <<>>
    /\ ppc = "off"
    /\ fstate = <<>>
    /\ fresult = <<>>
    /\ finished = <<>>
    /\ arrival = <<>>
    /\ results_in_order = <<>>
    /\ all_embeddings = <<>>
    /\ batch_no = 0
    /\ conn_tx = "none"
    /\ issued = {}

(***************************************************************************)
(* get_batch_embeddings (lines 302-346).                                   *)
(***************************************************************************)
\* self.max_retries, self.retry_delay
max_retries == 3
retry_delay == 2

\* the strings a text of the argument is drawn from: two sentences, the
\* empty string and a whitespace-only string
TextAlphabet == {"a", "b", "", " "}

BoundedSeqs(S, n) == UNION {[1..k -> S] : k \in 0..n}

\* str.isspace() on the alphabet
IsSpace(t) == t \in {" "}

\* `text and not text.isspace()`
IsValid(t) == t # "" /\ ~IsSpace(t)

\* valid_texts = [text for text in texts if text and not text.isspace()]
valid_texts(ts) == SelectSeq(ts, IsValid)

\* valid_indices = [i for i, text in enumerate(texts) if ...] (positions
\* count from 1 here)
valid_indices(ts) ==
    LET F[i \in 0..Len(ts)] ==
            IF i = 0 THEN <<>>
            ELSE IF IsValid(ts[i]) THEN Append(F[i - 1], i) ELSE F[i - 1]
    IN  F[Len(ts)]

\* the vector the embedding model computes for a text
Emb(t) == <<"vec", t>>

\* What the service answers to one request: a 2xx body with a 'data' list
\* ("ok"), an error status, no answer in time, a 2xx body without 'data'
\* ("nodata"), or a 2xx body that is no JSON or whose items lack a field
\* ("badbody").
RespKinds == {"ok", "http400", "http404", "http429", "http500", "timeout",
              "nodata", "badbody"}

Injections(m) == {f \in [1..m -> 1..m] : \A i, j \in 1..m : f[i] = f[j] => i = j}

\* The 'data' lists of an accepted answer to the input vt: one item per index
\* 0..m-1, the item of index k carrying the vector of input k, listed in any
\* order; m is the number of inputs, or one less, or one more (the item beyond
\* the inputs carries some other vector).
DataBodies(vt) ==
    LET n == Len(vt)
        item(k) == [index |-> k - 1,
                    embedding |-> IF k <= n THEN Emb(vt[k]) ELSE Emb("extra")]
    IN  UNION {{[i \in 1..m |-> item(f[i])] : f \in Injections(m)} :
                 m \in {n - 1, n, n + 1}}

\* sorted(result_json['data'], key=lambda x: x['index']) (stable)
SortByIndex(data) ==
    LET n == Len(data)
        rank(i) == 1 + Cardinality({j \in 1..n :
                        \/ data[j].index < data[i].index
                        \/ data[j].index = data[i].index /\ j < i})
    IN  [r \in 1..n |-> data[CHOOSE i \in 1..n : rank(i) = r]]

\* api_results = [item['embedding'] for item in sorted(...)]
Embeddings(data) == [r \in 1..Len(data) |-> SortByIndex(data)[r].embedding]

\* api_results = None
NoResults == [set |-> FALSE, vecs |-> <<>>]

\* [None] * len(texts)
NoneList(ts) == [i \in 1..Len(ts) |-> None]

\* lines 339-346: put the vectors back at the positions of the valid texts.
\* valid_indices[i] raises IndexError for a vector beyond the valid texts.
Rehydrate(ts, api) ==
    LET vi == valid_indices(ts) IN
    IF ~api.set \/ api.vecs = <<>>
    THEN [raised |-> FALSE, list |-> NoneList(ts)]
    ELSE IF Len(api.vecs) > Len(vi)
    THEN [raised |-> TRUE, list |-> <<>>]
    ELSE [raised |-> FALSE,
          list |-> [i \in 1..Len(ts) |->
                      IF \E k \in 1..Len(api.vecs) : vi[k] = i
                      THEN api.vecs[CHOOSE k \in 1..Len(api.vecs) : vi[k] = i]
                      ELSE None]]

\* the delay without the attempt factor
SleepDelayFlat(a) == retry_delay

\* time.sleep(self.retry_delay * (attempt + 1)) (line 336)
SleepDelay(a) == retry_delay * (a + 1)

\* line 331: `if e.response.status_code == 400: break`
BreaksLoop(kind) == kind = "http400"

\* only the HTTPError clause, without the `except Exception` clause
CaughtHttpOnly(kind) == kind \in {"http400", "http404", "http429", "http500"}

\* lines 327-333: the two except clauses catch every exception of the try
\* block
Caught(kind) == TRUE

EmbOff ==
    /\ texts = <<>>
    /\ epc = "off"
    /\ attempt = 0
    /\ requests = <<>>
    /\ resps = <<>>
    /\ sleeps = <<>>
    /\ api_results = NoResults
    /\ body = {}
    /\ result = [raised |-> FALSE, list |-> <<>>]

EmbInit ==
    /\ texts \in BoundedSeqs(TextAlphabet, MaxTexts)
    /\ epc = "call"
    /\ attempt = 0
    /\ requests = <<>>
    /\ resps = <<>>
    /\ sleeps = <<>>
    /\ api_results = NoResults
    /\ body = {}
    /\ result = [raised |-> FALSE, list |-> <<>>]

\* lines 304-316: the early returns, and the entry of the retry loop
Call ==
    /\ epc = "call"
    /\ \/ /\ texts = <<>>
          /\ result' = [raised |-> FALSE, list |-> <<>>]
          /\ epc' = "returned"
       \/ /\ texts # <<>>
          /\ valid_texts(texts) = <<>>
          /\ result' = [raised |-> FALSE, list |-> NoneList(texts)]
          /\ epc' = "returned"
       \/ /\ valid_texts(texts) # <<>>
          /\ epc' = "attempt"
          /\ UNCHANGED result
    /\ UNCHANGED <<texts, attempt, requests, resps, sleeps, api_results, body>>
    /\ UNCHANGED <<runVars, poolVars, dataVars>>

\* lines 317-336: one pass of the retry loop: the request, what is done with
\* the answer, and the sleep before the next pass
Attempt ==
    /\ epc = "attempt"
    /\ attempt < max_retries
    /\ \E kind \in RespKinds :
        /\ requests' = Append(requests, valid_texts(texts))
        /\ resps' = Append(resps, kind)
        /\ \/ /\ kind = "ok"
              /\ \E data \in DataBodies(valid_texts(texts)) :
                    /\ api_results' = [set |-> TRUE, vecs |-> Embeddings(data)]
                    /\ body' = Range(data)
              /\ epc' = "rehydrate"
              /\ UNCHANGED <<attempt, sleeps, result>>
           \/ /\ kind # "ok"
              /\ ~Caught(kind)
              /\ epc' = "raised"
              /\ result' = [raised |-> TRUE, list |-> <<>>]
              /\ UNCHANGED <<attempt, sleeps, api_results, body>>
           \/ /\ kind # "ok"
              /\ Caught(kind)
              /\ BreaksLoop(kind)
              /\ epc' = "rehydrate"
              /\ UNCHANGED <<attempt, sleeps, api_results, body, result>>
           \/ /\ kind # "ok"
              /\ Caught(kind)
              /\ ~BreaksLoop(kind)
              /\ IF attempt < max_retries - 1
                 THEN /\ sleeps' = Append(sleeps, SleepDelay(attempt))
                      /\ attempt' = attempt + 1
                      /\ epc' = "attempt"
                 ELSE /\ epc' = "rehydrate"
                      /\ UNCHANGED <<attempt, sleeps>>
              /\ UNCHANGED <<api_results, body, result>>
    /\ UNCHANGED texts
    /\ UNCHANGED <<runVars, poolVars, dataVars>>

\* lines 338-346
Return ==
    /\ epc = "rehydrate"
    /\ result' = Rehydrate(texts, api_results)
    /\ epc' = IF Rehydrate(texts, api_results).raised THEN "raised" ELSE "returned"
    /\ UNCHANGED <<texts, attempt, requests, resps, sleeps, api_results, body>>
    /\ UNCHANGED <<runVars, poolVars, dataVars>>

NextEmb == Call \/ Attempt \/ Return

InitEmb == RunOff /\ EmbInit /\ PoolOff /\ DataOff

SpecEmb == InitEmb /\ [][NextEmb]_vars


(***************************************************************************)
(* The embedding fan-out of process_and_insert_batch (lines 397-409).      *)
(***************************************************************************)
\* the sentences split_sentences may yield, all different and none blank
SentencePool == <<"s1", "s2", "s3", "s4", "s5", "s6", "s7", "s8">>

\* number of slices all_sentences[i:i + size] for i in range(0, n, size)
NumBatches(sents) == (Len(sents) + ApiBatchSize - 1) \div ApiBatchSize

\* batches = [all_sentences[i:i + size] for i in range(0, len, size)]
Batches(sents) ==
    [i \in 1..NumBatches(sents) |->
        SubSeq(sents, (i - 1) * ApiBatchSize + 1,
               Min(i * ApiBatchSize, Len(sents)))]

\* What the retry loop of get_batch_embeddings can leave in api_results for
\* the inputs b: nothing, or the vectors of an accepted answer in index order
\* (one per input, one less, or one more).
ApiOutcomes(b) ==
    {NoResults}
    \cup {[set |-> TRUE,
           vecs |-> [k \in 1..m |->
                       IF k <= Len(valid_texts(b)) THEN Emb(valid_texts(b)[k])
                       ELSE Emb("extra")]] :
            m \in {Len(valid_texts(b)) - 1, Len(valid_texts(b)),
                   Len(valid_texts(b)) + 1} \cap (0..(Len(b) + 1))}

\* what a future of executor.submit(self.get_batch_embeddings, batch) can hold
FutureResults(b) == {Rehydrate(b, api) : api \in ApiOutcomes(b)}

NoFuture == [raised |-> FALSE, list |-> <<>>]

RECURSIVE Concat(_, _, _)
\* the lists lists[order[k]], k = from..Len(order), that are truthy, joined
Concat(lists, order, from) ==
    IF from > Len(order) THEN <<>>
    ELSE (IF lists[order[from]] # <<>> THEN lists[order[from]] ELSE <<>>)
         \o Concat(lists, order, from + 1)

\* the results joined in the order as_completed delivered them
MergeByArrival(results, arrived) == Concat(results, arrived, 1)

\* lines 408-409: for result_batch in results_in_order:
\*                    if result_batch: all_embeddings.extend(result_batch)
MergeResults(results, arrived) ==
    Concat(results, [i \in 1..Len(results) |-> i], 1)

PoolInit ==
    /\ all_sentences \in {SubSeq(SentencePool, 1, n) : n \in 0..MaxSentences}
    /\ ppc = "start"
    /\ fstate = <<>>
    /\ fresult = <<>>
    /\ finished = <<>>
    /\ arrival = <<>>
    /\ results_in_order = <<>>
    /\ all_embeddings = <<>>
    /\ batch_no = 0
    /\ conn_tx = "none"
    /\ issued = {}

\* lines 397-404: nothing to embed, or slice the sentences, submit one task
\* per slice and prepare results_in_order = [None] * len(batches)
Submit ==
    /\ ppc = "start"
    /\ IF all_sentences = <<>>
       THEN /\ ppc' = "skipped"
            /\ UNCHANGED <<fstate, fresult, results_in_order>>
       ELSE /\ ppc' = "collect"
            /\ fstate' = [i \in 1..NumBatches(all_sentences) |-> "queued"]
            /\ fresult' = [i \in 1..NumBatches(all_sentences) |-> NoFuture]
            /\ results_in_order' = [i \in 1..NumBatches(all_sentences) |-> None]
    /\ UNCHANGED <<all_sentences, finished, arrival, all_embeddings>>
    /\ UNCHANGED <<batch_no, conn_tx, issued>>
    /\ UNCHANGED <<runVars, embVars, dataVars>>

Running == {i \in 1..Len(fstate) : fstate[i] = "running"}

\* a free worker thread of the executor takes the oldest queued task
WorkerStart(i) ==
    /\ ppc \in {"collect", "failed"}
    /\ fstate[i] = "queued"
    /\ \A j \in 1..(i - 1) : fstate[j] # "queued"
    /\ Cardinality(Running) < MaxWorkers
    /\ fstate' = [fstate EXCEPT ![i] = "running"]
    /\ UNCHANGED <<all_sentences, ppc, fresult, finished, arrival,
                   results_in_order, all_embeddings>>
    /\ UNCHANGED <<batch_no, conn_tx, issued>>
    /\ UNCHANGED <<runVars, embVars, dataVars>>

\* the call of get_batch_embeddings in the worker ends: its value, or its
\* exception, is stored in the future
WorkerFinish(i) ==
    /\ ppc \in {"collect", "failed"}
    /\ fstate[i] = "running"
    /\ \E r \in FutureResults(Batches(all_sentences)[i]) :
          fresult' = [fresult EXCEPT ![i] = r]
    /\ fstate' = [fstate EXCEPT ![i] = "done"]
    /\ finished' = Append(finished, i)
    /\ UNCHANGED <<all_sentences, ppc, arrival, results_in_order,
                   all_embeddings>>
    /\ UNCHANGED <<batch_no, conn_tx, issued>>
    /\ UNCHANGED <<runVars, embVars, dataVars>>

\* lines 405-407: as_completed hands over some finished future that it has
\* not handed over yet; future.result() returns the list or re-raises
Collect(i) ==
    /\ ppc = "collect"
    /\ fstate[i] = "done"
    /\ i \notin Range(arrival)
    /\ arrival' = Append(arrival, i)
    /\ IF fresult[i].raised
       THEN /\ ppc' = "failed"
            /\ UNCHANGED results_in_order
       ELSE /\ results_in_order' = [results_in_order EXCEPT ![i] = fresult[i].list]
            /\ UNCHANGED ppc
    /\ UNCHANGED <<all_sentences, fstate, fresult, finished, all_embeddings>>
    /\ UNCHANGED <<batch_no, conn_tx, issued>>
    /\ UNCHANGED <<runVars, embVars, dataVars>>

\* lines 408-409, once every future was handed over
Merge ==
    /\ ppc = "collect"
    /\ Len(arrival) = Len(fstate)
    /\ all_embeddings' = MergeResults(results_in_order, arrival)
    /\ ppc' = "merged"
    /\ UNCHANGED <<all_sentences, fstate, fresult, finished, arrival,
                   results_in_order>>
    /\ UNCHANGED <<batch_no, conn_tx, issued>>
    /\ UNCHANGED <<runVars, embVars, dataVars>>

NextPool ==
    \/ Submit
    \/ \E i \in 1..Len(fstate) : WorkerStart(i)
    \/ \E i \in 1..Len(fstate) : WorkerFinish(i)
    \/ \E i \in 1..Len(fstate) : Collect(i)
    \/ Merge

InitPool == RunOff /\ EmbOff /\ PoolInit /\ DataOff

SpecPool == InitPool /\ [][NextPool]_vars

(***************************************************************************)
(* Consecutive calls of process_and_insert_batch on the connection of the  *)
(* run, with the threads that take part: the loader thread, which runs the *)
(* call, and the worker threads of the call's executor.                    *)
(***************************************************************************)
\* number of consecutive calls of process_and_insert_batch that are explored
MaxCalls == 2

\* the exit of the with block returns without waiting for the workers
ShutdownReturnsAtOnce(states) == TRUE

\* The exit of `with ThreadPoolExecutor(...)` (lines 399-409) is
\* shutdown(wait=True): it returns when every submitted task has ended.
ShutdownWaits(states) == \A i \in 1..Len(states) : states[i] = "done"

\* the connection of the run is open, with no call begun
ConcInit ==
    /\ all_sentences = <<>>
    /\ ppc = "idle"
    /\ fstate = <<>>
    /\ fresult = <<>>
    /\ finished = <<>>
    /\ arrival = <<>>
    /\ results_in_order = <<>>
    /\ all_embeddings = <<>>
    /\ batch_no = 0
    /\ conn_tx = "none"
    /\ issued = {}

\* Lines 348-395 of a call: the loader thread issues the statements for the
\* dynasties, authors and poems on conn, which opens a transaction, and
\* splits the poems into sentences.
BeginBatch ==
    /\ ppc = "idle"
    /\ batch_no < MaxCalls
    /\ batch_no' = batch_no + 1
    /\ conn_tx' = "open"
    /\ issued' = issued \cup {[thread |-> "loader", call |-> batch_no + 1]}
    /\ all_sentences' \in {SubSeq(SentencePool, 1, n) : n \in 0..MaxSentences}
    /\ ppc' = "start"
    /\ fstate' = <<>>
    /\ fresult' = <<>>
    /\ finished' = <<>>
    /\ arrival' = <<>>
    /\ results_in_order' = <<>>
    /\ all_embeddings' = <<>>
    /\ UNCHANGED <<runVars, embVars, dataVars>>

\* Lines 411-424 after the fan-out, or without one: the loader thread
\* inserts the lines and commits; a statement or the commit that fails ends
\* in conn.rollback().
FinishBatch ==
    /\ ppc \in {"merged", "skipped"}
    /\ ShutdownWaits(fstate)
    /\ conn_tx' \in {"committed", "rolledback"}
    /\ issued' = issued \cup {[thread |-> "loader", call |-> batch_no]}
    /\ ppc' = "idle"
    /\ UNCHANGED <<all_sentences, fstate, fresult, finished, arrival,
                   results_in_order, all_embeddings, batch_no>>
    /\ UNCHANGED <<runVars, embVars, dataVars>>

\* Lines 407 and 422-424: future.result() re-raised a worker's exception;
\* it leaves the with block once the executor has shut down, and the loader
\* thread rolls back.  When conn.rollback() raises as well, the handler of
\* run_import (lines 463-465) raises on its own rollback and the run ends
\* with conn.close() (line 467).
AbortBatch ==
    /\ ppc = "failed"
    /\ ShutdownWaits(fstate)
    /\ \/ /\ conn_tx' = "rolledback"
          /\ ppc' = "idle"
       \/ /\ conn_tx' = "lost"
          /\ ppc' = "ended"
    /\ issued' = issued \cup {[thread |-> "loader", call |-> batch_no]}
    /\ UNCHANGED <<all_sentences, fstate, fresult, finished, arrival,
                   results_in_order, all_embeddings, batch_no>>
    /\ UNCHANGED <<runVars, embVars, dataVars>>

NextConc ==
    \/ BeginBatch
    \/ Submit
    \/ \E i \in 1..Len(fstate) : WorkerStart(i)
    \/ \E i \in 1..Len(fstate) : WorkerFinish(i)
    \/ \E i \in 1..Len(fstate) : Collect(i)
    \/ Merge
    \/ FinishBatch
    \/ AbortBatch

InitConc == RunOff /\ EmbOff /\ ConcInit /\ DataOff

SpecConc == InitConc /\ [][NextConc]_vars

(***************************************************************************)
(* process_and_insert_batch.                                               *)
(***************************************************************************)
\* every record of file f carries the same author and dynasty
DynastyOf(f) == f
AuthorOf(f) == <<f, DynastyOf(f)>>

\* a row that a second insert of the same record would not add again
PoemRowOnce(f, i, r) == [file |-> f, idx |-> i, run |-> 1]

\* the Poem row of record i of file f inserted by run r; a Line row carries
\* the same key (one sentence per poem at this level)
PoemRow(f, i, r) == [file |-> f, idx |-> i, run |-> r]

\* The statements of the try block in order (lines 353-421).
Steps == <<"upsert", "poems", "embed", "lines", "commit">>

StepNo(s) == CHOOSE i \in 1..Len(Steps) : Steps[i] = s

\* A database statement fails with an error of the statement ("dberror") or
\* because the connection broke ("connlost"); the embedding fan-out fails
\* when future.result() re-raises an exception of a worker ("raise").
FailPoints ==
    {NoFail}
    \cup {[step |-> s, kind |-> k] :
            s \in {"upsert", "poems", "lines", "commit"},
            k \in {"dberror", "connlost"}}
    \cup {[step |-> "embed", kind |-> "raise"]}

\* Outcome of the embedding fan-out of a batch as far as the rows go: every
\* sentence got its vector ("all") or none did ("none": the calls degraded to
\* absent, and no Line is inserted).
EmbOutcomes == {"all", "none"}

\* Rows the first n steps of the try block write for the batch (idx set
\* `batch` of file f, run r).
Written(f, r, batch, emb, n) ==
    [dynasties |-> IF n >= 1 THEN {DynastyOf(f)} ELSE {},
     authors   |-> IF n >= 1 THEN {AuthorOf(f)} ELSE {},
     poems     |-> IF n >= 2 THEN {PoemRow(f, i, r) : i \in batch} ELSE {},
     lines     |-> IF n >= 4 /\ emb = "all"
                   THEN {PoemRow(f, i, r) : i \in batch} ELSE {}]

\* conn.rollback() of the except clause (line 424), left out
RollbackOmitted(pending) == pending

\* conn.rollback() of the except clause (line 424): the open transaction's
\* rows are discarded
Rollback(pending) == EmptyStore

\* conn.commit() (line 421): everything written in the open transaction
\* becomes part of the committed store
Commit(store, pending) == StoreUnion(store, pending)

\* One call.  `store` and `pending` are the committed rows and the open
\* transaction before it.  The result tells what they are afterwards, whether
\* the connection survived, and whether an exception leaves the call: the
\* except clause logs, rolls back and returns, so only a rollback that itself
\* raises (on a broken connection psycopg2 raises InterfaceError) leaves it.
process_and_insert_batch(store, pending, f, r, batch, emb, fail) ==
    LET upTo(n) == StoreUnion(pending, Written(f, r, batch, emb, n))
    IN  CASE fail = NoFail ->
               [db |-> Commit(store, upTo(4)), tx |-> EmptyStore, conn |-> TRUE,
                raises |-> FALSE, outcome |-> "committed"]
          [] fail.kind = "connlost" ->
               \* the server drops the transaction with the connection
               [db |-> store, tx |-> EmptyStore, conn |-> FALSE,
                raises |-> TRUE, outcome |-> "failed"]
          [] OTHER ->
               [db |-> store, tx |-> Rollback(upTo(StepNo(fail.step) - 1)),
                conn |-> TRUE, raises |-> FALSE, outcome |-> "failed"]

(***************************************************************************)
(* run_import.                                                             *)
(***************************************************************************)
RunInit ==
    /\ corpus \in [Files -> FileShapes]
    /\ log = <<>>
    /\ db = EmptyStore
    /\ tx = EmptyStore
    /\ connOpen = FALSE
    /\ pc = "idle"
    /\ run = 0
    /\ todo = <<>>
    /\ pos = 0
    /\ aborted = FALSE
    /\ logAtStart = <<>>
    /\ logEnd1 = <<>>
    /\ toProcess = <<>>
    /\ attempted = {}
    /\ failedIn = {}
    /\ touched = {}
    /\ rolledBack = {}
    /\ lastFail = NoFail
    /\ snap = EmptyStore
    /\ dbAtStart = EmptyStore
    /\ crashed = NoCrash
    /\ lastOutcome = "none"

InitRun == RunInit /\ EmbOff /\ PoolOff /\ DataOff

\* lines 428-437: connect, read the log, compute files_to_process; return at
\* once when nothing is left
StartRun ==
    /\ pc \in {"idle", "done", "killed"}
    /\ run < MaxRuns
    /\ run' = run + 1
    /\ connOpen' = TRUE
    /\ tx' = EmptyStore
    /\ aborted' = FALSE
    /\ logAtStart' = log
    /\ dbAtStart' = db
    /\ toProcess' = files_to_process(log)
    /\ todo' = files_to_process(log)
    /\ attempted' = {}
    /\ failedIn' = {}
    /\ touched' = {}
    /\ lastOutcome' = "none"
    /\ lastFail' = NoFail
    /\ snap' = db
    /\ pos' = 0
    /\ IF files_to_process(log) = <<>>
       THEN /\ pc' = "done"
            /\ logEnd1' = IF run' = 1 THEN log ELSE logEnd1
       ELSE /\ pc' = "loop"
            /\ logEnd1' = logEnd1
    /\ UNCHANGED <<corpus, log, db, rolledBack, crashed>>
    /\ UNCHANGED <<embVars, poolVars, dataVars>>

\* lines 438-447 and 463-465: open and parse the next file, extract its
\* records.  An exception goes to the handler of the file (log, rollback,
\* next file); a file without records is checkpointed at once.
OpenFile ==
    /\ pc = "loop"
    /\ todo # <<>>
    /\ LET f == Head(todo) IN
        /\ attempted' = attempted \cup {f}
        /\ rolledBack' = rolledBack \ {f}
        /\ \/ /\ corpus[f].kind = "bad"
              /\ failedIn' = failedIn \cup {f}
              /\ tx' = Rollback(tx)
              /\ todo' = Tail(todo)
              /\ UNCHANGED <<log, pc, pos>>
           \/ /\ corpus[f].kind = "empty"
              /\ log' = mark_file_as_processed(log, f)
              /\ todo' = Tail(todo)
              /\ UNCHANGED <<failedIn, tx, pc, pos>>
           \/ /\ corpus[f].kind = "recs"
              /\ pc' = "records"
              /\ pos' = 0
              /\ UNCHANGED <<failedIn, tx, log, todo>>
    /\ lastOutcome' = "none"
    /\ lastFail' = NoFail
    /\ snap' = db
    /\ UNCHANGED <<corpus, db, connOpen, run, aborted, logAtStart, logEnd1,
                   toProcess, touched, dbAtStart, crashed>>
    /\ UNCHANGED <<embVars, poolVars, dataVars>>

\* lines 449-460: the record loop up to its next call of
\* process_and_insert_batch (a full batch inside the loop, or the rest after
\* it), and the call.  An exception leaving the call reaches the handler of
\* the file (lines 463-465), whose own conn.rollback() raises on the broken
\* connection: the exception leaves the loop, the finally clause closes the
\* connection and run_import ends.
ProcessRecords ==
    /\ pc = "records"
    /\ LET f == Head(todo)
           n == corpus[f].n
           size == Min(DbBatchSize, n - pos)
           batch == (pos + 1)..(pos + size)
       IN
        \/ /\ size = 0
           /\ pc' = "mark"
           /\ UNCHANGED <<db, tx, connOpen, pos, aborted, failedIn, touched,
                          rolledBack, lastFail, snap, lastOutcome, logEnd1>>
        \/ /\ size > 0
           /\ \E emb \in EmbOutcomes, fail \in FailPoints :
                /\ fail.step = "lines" => emb = "all"
                /\ LET res == process_and_insert_batch(db, tx, f, run, batch,
                                                       emb, fail)
                   IN
                    /\ db' = res.db
                    /\ tx' = res.tx
                    /\ connOpen' = res.conn
                    /\ snap' = db
                    /\ lastOutcome' = res.outcome
                    /\ lastFail' = fail
                    /\ touched' = touched \cup {f}
                    /\ pos' = pos + size
                    /\ IF res.outcome = "failed"
                       THEN /\ failedIn' = failedIn \cup {f}
                            /\ rolledBack' = rolledBack \cup {f}
                       ELSE UNCHANGED <<failedIn, rolledBack>>
                    /\ IF res.raises
                       THEN /\ pc' = "done"
                            /\ aborted' = TRUE
                            /\ logEnd1' = IF run = 1 THEN log ELSE logEnd1
                       ELSE /\ pc' = IF pos + size = n THEN "mark" ELSE "records"
                            /\ UNCHANGED <<aborted, logEnd1>>
    /\ UNCHANGED <<corpus, log, run, todo, logAtStart, toProcess, attempted,
                   dbAtStart, crashed>>
    /\ UNCHANGED <<embVars, poolVars, dataVars>>

\* line 462: every batch call of the file returned; checkpoint the file
MarkFile ==
    /\ pc = "mark"
    /\ log' = mark_file_as_processed(log, Head(todo))
    /\ todo' = Tail(todo)
    /\ pc' = "loop"
    /\ lastOutcome' = "none"
    /\ lastFail' = NoFail
    /\ snap' = db
    /\ UNCHANGED <<corpus, db, tx, connOpen, run, pos, aborted, logAtStart,
                   logEnd1, toProcess, attempted, failedIn, touched,
                   rolledBack, dbAtStart, crashed>>
    /\ UNCHANGED <<embVars, poolVars, dataVars>>

\* lines 466-468: the loop is over; close the connection
EndRun ==
    /\ pc = "loop"
    /\ todo = <<>>
    /\ pc' = "done"
    /\ connOpen' = FALSE
    /\ tx' = EmptyStore
    /\ logEnd1' = IF run = 1 THEN log ELSE logEnd1
    /\ UNCHANGED <<corpus, log, db, run, todo, pos, aborted, logAtStart,
                   toProcess, attempted, failedIn, touched, rolledBack,
                   lastFail, snap, dbAtStart, crashed, lastOutcome>>
    /\ UNCHANGED <<embVars, poolVars, dataVars>>

\* The process is killed (power loss, SIGKILL: no handler and no finally
\* clause runs) at line 462, after the file's last batch was committed and
\* before mark_file_as_processed wrote the path.  The server drops the open
\* transaction; the committed rows and the lines of the log stay.  One kill
\* per behaviour is explored, at this position.
Kill ==
    /\ pc = "mark"
    /\ lastOutcome = "committed"
    /\ crashed = NoCrash
    /\ pc' = "killed"
    /\ connOpen' = FALSE
    /\ tx' = EmptyStore
    /\ crashed' = [file |-> Head(todo), run |-> run]
    /\ lastOutcome' = "none"
    /\ lastFail' = NoFail
    /\ snap' = db
    /\ logEnd1' = IF run = 1 THEN log ELSE logEnd1
    /\ UNCHANGED <<corpus, log, db, run, todo, pos, aborted, logAtStart,
                   toProcess, attempted, failedIn, touched, rolledBack,
                   dbAtStart>>
    /\ UNCHANGED <<embVars, poolVars, dataVars>>

NextRun == StartRun \/ OpenFile \/ ProcessRecords \/ MarkFile \/ EndRun

Spec == InitRun /\ [][NextRun]_vars

\* run_import with kills of the process, on a corpus whose files hold the
\* same number (at least one) of records that process_poem_data accepts
InitCrash ==
    /\ InitRun
    /\ \E n \in 1..MaxRecs : \A f \in Files : corpus[f] = [kind |-> "recs", n |-> n]

NextCrash == NextRun \/ Kill

SpecCrash == InitCrash /\ [][NextCrash]_vars

TypeOK ==
    /\ pc \in {"idle", "loop", "records", "mark", "done", "killed"}
    /\ run \in 0..MaxRuns
    /\ Range(log) \subseteq Files
    /\ lastOutcome \in {"none", "committed", "failed"}

(***************************************************************************)
(* split_sentences.  A string is the sequence of its characters; the       *)
(* characters of the model are named in ASCII: "STOP", "BANG" and "WHAT"   *)
(* are the full-width full stop, exclamation mark and question mark of     *)
(* sentence_pattern (line 94), "(" and ")" the ASCII brackets of           *)
(* noise_pattern (line 95), " " and "\n" white space; every other          *)
(* character is an ordinary one.                                           *)
(***************************************************************************)
\* longest run of ordinary characters of one segment of an argument
MaxLetters == 5

\* the threshold of line 483
MinSentenceLen == 4

Whitespace == {" ", "\n"}

\* sentence_pattern = [。！？]
SentenceEnd == {"STOP", "BANG", "WHAT"}

RECURSIVE Flatten(_)
\* ''.join(list)
Flatten(ss) == IF ss = <<>> THEN <<>> ELSE Head(ss) \o Flatten(Tail(ss))

\* index of the first ")" of s after position i that a non-greedy ".*?" can
\* reach from i ("." matches no newline), 0 if there is none
ClosingAfter(s, i) ==
    LET closers == {j \in (i + 1)..Len(s) :
                      /\ s[j] = ")"
                      /\ \A k \in (i + 1)..(j - 1) : s[k] \notin {")", "\n"}}
    IN  IF closers = {} THEN 0 ELSE CHOOSE j \in closers : TRUE

RECURSIVE NoiseSubFrom(_, _)
NoiseSubFrom(s, i) ==
    IF i > Len(s) THEN <<>>
    ELSE IF s[i] = "(" /\ ClosingAfter(s, i) # 0
         THEN NoiseSubFrom(s, ClosingAfter(s, i) + 1)
         ELSE <<s[i]>> \o NoiseSubFrom(s, i + 1)

\* noise_pattern.sub('', text) (line 480): every leftmost bracketed span is
\* removed
NoiseSub(s) == NoiseSubFrom(s, 1)

\* re.sub(r'\s+', '', text) (line 481)
RemoveSpace(s) == LET keep(c) == c \notin Whitespace IN SelectSeq(s, keep)

RECURSIVE SplitFrom(_, _, _)
SplitFrom(s, i, cur) ==
    IF i > Len(s) THEN <<cur>>
    ELSE IF s[i] \in SentenceEnd
         THEN <<cur>> \o SplitFrom(s, i + 1, <<>>)
         ELSE SplitFrom(s, i + 1, Append(cur, s[i]))

\* the text is not split at all
PatternSplitNowhere(s) == <<s>>

\* sentence_pattern.split(text) (line 482): the pieces between the sentence
\* ends, empty ones and the one after the last end included
PatternSplit(s) == SplitFrom(s, 1, <<>>)

RECURSIVE LStrip(_)
LStrip(s) == IF s # <<>> /\ Head(s) \in Whitespace THEN LStrip(Tail(s)) ELSE s

RECURSIVE RStrip(_)
RStrip(s) ==
    IF s # <<>> /\ s[Len(s)] \in Whitespace
    THEN RStrip(SubSeq(s, 1, Len(s) - 1)) ELSE s

\* str.strip()
Strip(s) == RStrip(LStrip(s))

\* the filter of line 483 left out
KeepsEverySentence(s) == TRUE

\* the filter of line 483: len(s.strip()) >= 4
KeepsSentence(s) == Len(Strip(s)) >= MinSentenceLen

RECURSIVE StripAll(_)
StripAll(ps) ==
    IF ps = <<>> THEN <<>> ELSE <<Strip(Head(ps))>> \o StripAll(Tail(ps))

\* lines 479-483
split_sentences(t) ==
    StripAll(SelectSeq(PatternSplit(RemoveSpace(NoiseSub(t))), KeepsSentence))

\* n times the character c
Letters(c, n) == [i \in 1..n |-> c]

\* s with d inserted after its first p characters (at its end if it is
\* shorter)
InsertAt(s, p, d) ==
    LET q == Min(p, Len(s))
    IN  SubSeq(s, 1, q) \o d \o SubSeq(s, q + 1, Len(s))

\* what may stand inside or around the ordinary characters of a segment
Decorations ==
    {<<>>, <<" ">>, <<"\n">>, <<"(", ")">>, <<"(", "n", ")">>, <<"(">>,
     <<")">>, <<"(", "\n", ")">>}

\* what may end a segment
Terminators == {<<>>, <<"STOP">>, <<"BANG">>, <<"WHAT">>}

\* The segments of the explored arguments: up to MaxLetters times the
\* ordinary character c, one decoration before, inside or after them, and a
\* terminator.
Segments(c) ==
    {InsertAt(Letters(c, n), p, d) \o t :
        n \in 0..MaxLetters, p \in {0, 2, MaxLetters}, d \in Decorations,
        t \in Terminators}

\* The explored arguments: a segment of "a" followed by a segment of "b", so
\* that the order of the source shows in the characters.
SplitInit ==
    /\ text \in {s1 \o s2 : s1 \in Segments("a"), s2 \in Segments("b")}
    /\ spc = "call"
    /\ sentences = <<>>

\* the call
SplitCall ==
    /\ spc = "call"
    /\ sentences' = split_sentences(text)
    /\ spc' = "returned"
    /\ UNCHANGED text
    /\ UNCHANGED <<runVars, embVars, poolVars, loadVars, docVars, scanVars,
                   searchVars, toolVars>>

NextSplit == SplitCall

InitSplit ==
    RunOff /\ EmbOff /\ PoolOff /\ SplitInit /\ LoadOff /\ DocOff /\ MoreOff

SpecSplit == InitSplit /\ [][NextSplit]_vars

(***************************************************************************)
(* process_and_insert_batch on the rows of the tables.  A processed poem   *)
(* is the record process_poem_data returns; its content is a string as the *)
(* sequence of its characters.                                             *)
(***************************************************************************)
Max(S) == CHOOSE x \in S : \A y \in S : y <= x

\* the next value of a table's id column
NextId(rows) == IF rows = {} THEN 1 ELSE 1 + Max({r.id : r \in rows})

RECURSIVE SetToSeq(_)
\* list(set(...)) (lines 353-354): the members in one order
SetToSeq(S) ==
    IF S = {} THEN <<>>
    ELSE LET x == CHOOSE y \in S : TRUE IN <<x>> \o SetToSeq(S \ {x})

\* INSERT INTO dynasties without its ON CONFLICT clause
DynastyConflictIgnored(rows, name) == FALSE

\* ON CONFLICT (name) of line 358: a row of that name exists
DynastyConflict(rows, name) == \E r \in rows : r.name = name

RECURSIVE InsertDynasties(_, _)
\* INSERT INTO dynasties (name) ... ON CONFLICT (name) DO NOTHING, for every
\* name of the list (lines 358-359)
InsertDynasties(rows, names) ==
    IF names = <<>> THEN rows
    ELSE InsertDynasties(
            IF DynastyConflict(rows, Head(names)) THEN rows
            ELSE rows \cup {[id |-> NextId(rows), name |-> Head(names)]},
            Tail(names))

\* dynasty_map.get(name) (lines 360-361); 0 stands for None
DynastyId(rows, name) ==
    IF \E r \in rows : r.name = name
    THEN (CHOOSE r \in rows : r.name = name).id ELSE 0

\* ON CONFLICT ON CONSTRAINT uq_author_dynasty of line 367
AuthorConflict(rows, name, dynasty_id) ==
    \E r \in rows : r.name = name /\ r.dynasty_id = dynasty_id

RECURSIVE InsertAuthors(_, _)
\* INSERT INTO authors (name, dynasty_id) ... DO NOTHING, for every pair of
\* authors_to_insert (lines 363-368)
InsertAuthors(rows, pairs) ==
    IF pairs = <<>> THEN rows
    ELSE LET a == Head(pairs) IN
         InsertAuthors(
            IF AuthorConflict(rows, a[1], a[2]) THEN rows
            ELSE rows \cup {[id |-> NextId(rows), name |-> a[1],
                             dynasty_id |-> a[2]]},
            Tail(pairs))

\* the author looked up by name alone, under whatever dynasty
AuthorIdByName(authors, dynasties, name, dynasty) ==
    LET hits == {a \in authors : a.name = name}
    IN  IF hits = {} THEN 0 ELSE (CHOOSE a \in hits : TRUE).id

\* author_map.get((author, dynasty)) (lines 370-382); 0 stands for None
AuthorId(authors, dynasties, name, dynasty) ==
    LET hits == {a \in authors :
                   /\ a.name = name
                   /\ \E d \in dynasties : d.id = a.dynasty_id /\ d.name = dynasty}
    IN  IF hits = {} THEN 0 ELSE (CHOOSE a \in hits : TRUE).id

RECURSIVE SentencesOf(_)
\* lines 391-395: per poem of the batch the list of its sentences
SentencesOf(batch) ==
    IF batch = <<>> THEN <<>>
    ELSE <<split_sentences(Head(batch).content)>> \o SentencesOf(Tail(batch))

\* the test of line 414 left out: a row for every sentence
HasEmbeddingUnchecked(embs, k) == TRUE

\* line 414: emb_idx < len(all_embeddings) and all_embeddings[emb_idx]
HasEmbedding(embs, k) == k <= Len(embs) /\ embs[k] # None

\* lines_to_insert over the embeddings without their absent entries: the
\* k-th sentence gets the k-th vector that is present
LinesToInsertCompacted(per, all, embs) ==
    LET present(e) == e # None
        packed == SelectSeq(embs, present)
        RECURSIVE Build(_, _, _)
        Build(i, k, emb_idx) ==
            IF i > Len(per) THEN <<>>
            ELSE IF k > Len(per[i]) THEN Build(i + 1, 1, emb_idx)
            ELSE (IF emb_idx <= Len(packed)
                  THEN <<[poem |-> i, content |-> all[emb_idx],
                          embedding |-> packed[emb_idx]]>>
                  ELSE <<>>) \o Build(i, k + 1, emb_idx + 1)
    IN  Build(1, 1, 1)

\* lines 411-416: lines_to_insert, with the position of the poem in place of
\* its id; per is the list of the poems' sentence lists (its lengths are
\* poem_sentence_counts) and all its concatenation, all_sentences
LinesToInsert(per, all, embs) ==
    LET RECURSIVE Build(_, _, _)
        Build(i, k, emb_idx) ==
            IF i > Len(per) THEN <<>>
            ELSE IF k > Len(per[i]) THEN Build(i + 1, 1, emb_idx)
            ELSE (IF HasEmbedding(embs, emb_idx)
                  THEN <<[poem |-> i, content |-> all[emb_idx],
                          embedding |-> embs[emb_idx]]>>
                  ELSE <<>>) \o Build(i, k + 1, emb_idx + 1)
    IN  Build(1, 1, 1)

\* The statements of the try block on the rows the transaction sees (lines
\* 353-419); per is the outcome of lines 391-395.
BatchRows(t, batch, per, embs) ==
    LET dynasties == SetToSeq({batch[i].dynasty : i \in 1..Len(batch)})
        authors == SetToSeq({<<batch[i].author, batch[i].dynasty>> :
                               i \in 1..Len(batch)})
        drows == InsertDynasties(t.dynasties, dynasties)
        authors_to_insert ==
            LET known(a) == DynastyId(drows, a[2]) # 0
                pair(a) == <<a[1], DynastyId(drows, a[2])>>
                sel == SelectSeq(authors, known)
            IN  [i \in 1..Len(sel) |-> pair(sel[i])]
        arows == InsertAuthors(t.authors, authors_to_insert)
        firstPoem == NextId(t.poems)
        prows == t.poems \cup
                 {[id |-> firstPoem + i - 1,
                   title |-> batch[i].title,
                   author_id |-> AuthorId(arows, drows, batch[i].author,
                                          batch[i].dynasty),
                   full_content |-> batch[i].content] : i \in 1..Len(batch)}
        lines_to_insert == LinesToInsert(per, Flatten(per), embs)
        firstLine == NextId(t.lines)
        lrows == t.lines \cup
                 {[id |-> firstLine + j - 1,
                   poem_id |-> firstPoem + lines_to_insert[j].poem - 1,
                   content |-> lines_to_insert[j].content,
                   embedding |-> lines_to_insert[j].embedding] :
                    j \in 1..Len(lines_to_insert)}
    IN  [dynasties |-> drows, authors |-> arows, poems |-> prows,
         lines |-> lrows]

\* The statement of the try block that raises, if one does ("embed": the
\* fan-out re-raises a worker's exception at line 407).
LoadFails == {"none", "poems", "embed", "commit"}

\* One call on the committed rows t: conn.commit() makes the rows of the
\* transaction the committed ones (line 421); an exception at any statement
\* ends in conn.rollback() (lines 422-424) and the committed rows stay.
LoadBatch(t, batch, per, embs, fail) ==
    IF batch = <<>> THEN t
    ELSE IF fail = "none" THEN BatchRows(t, batch, per, embs) ELSE t

\* processed poems of the explored batches: P1 has two sentences, P2 one,
\* P3 only clauses shorter than the threshold ("yi" "ju" STOP "er" "ju" BANG)
PoemPool ==
    {[title |-> "T1", author |-> "A", dynasty |-> "D",
      content |-> <<"a", "a", "a", "a", "STOP", "b", "b", "b", "b", "b", "BANG">>],
     [title |-> "T2", author |-> "A", dynasty |-> "E",
      content |-> <<"c", "c", "c", "c", "STOP">>],
     [title |-> "T3", author |-> "B", dynasty |-> "D",
      content |-> <<"yi", "ju", "STOP", "er", "ju", "BANG">>]}

\* the explored arguments: one poem, or two different ones in either order
PoemBatches ==
    {<<p>> : p \in PoemPool}
    \cup {<<pq[1], pq[2]>> : pq \in {x \in PoemPool \X PoemPool : x[1] # x[2]}}

\* What the fan-out hands back for the sentences ss: per sentence its vector
\* or None, or an exception of a worker.
FanOutResults(ss) ==
    {[raised |-> TRUE, list |-> <<>>]}
    \cup {[raised |-> FALSE,
           list |-> [k \in 1..Len(ss) |-> IF k \in got THEN Emb(ss[k]) ELSE None]] :
            got \in SUBSET (1..Len(ss))}

LoadInit ==
    /\ tables = EmptyTables
    /\ lpc = "ready"
    /\ calls = 0
    /\ poem_batch = <<>>
    /\ sentenceList = <<>>
    /\ embeddings = [raised |-> FALSE, list |-> <<>>]
    /\ committed = FALSE
    /\ tablesBefore = EmptyTables
    /\ complete = TRUE

\* one call of process_and_insert_batch (lines 348-424)
LoadCall ==
    /\ lpc = "ready"
    /\ calls < MaxCalls
    /\ \E batch \in PoemBatches :
        LET per == SentencesOf(batch)
            all_s == Flatten(per)
        IN  \E fail \in LoadFails, embs \in FanOutResults(all_s) :
            /\ embs.raised <=> fail = "embed"
            \* the fan-out is not reached; when the commit fails it had
            \* given every vector
            /\ fail = "poems" => embs.list = [k \in 1..Len(all_s) |-> None]
            /\ fail = "commit" => \A k \in 1..Len(all_s) : embs.list[k] # None
            /\ poem_batch' = batch
            /\ sentenceList' = all_s
            /\ embeddings' = embs
            /\ committed' = (fail = "none")
            /\ tablesBefore' = tables
            /\ tables' = LoadBatch(tables, batch, per, embs.list, fail)
            /\ complete' = (/\ complete
                            /\ fail = "none"
                            /\ \A k \in 1..Len(embs.list) : embs.list[k] # None)
    /\ calls' = calls + 1
    /\ UNCHANGED lpc
    /\ UNCHANGED <<runVars, embVars, poolVars, splitVars, docVars, scanVars,
                   searchVars, toolVars>>

NextLoad == LoadCall

InitLoad ==
    RunOff /\ EmbOff /\ PoolOff /\ SplitOff /\ LoadInit /\ DocOff /\ MoreOff

SpecLoad == InitLoad /\ [][NextLoad]_vars

(***************************************************************************)
(* Parsed JSON documents.  A value is a record of its type t and, by type, *)
(* its characters s (string; for a number its digits), its truth b         *)
(* (boolean), its items l (list) or its key/value pairs d in document      *)
(* order (mapping).  Keys are written as TLA+ strings; strings of Chinese  *)
(* characters are spelt in pinyin, one syllable per character.             *)
(***************************************************************************)
JNull == [t |-> "null", s |-> <<>>, b |-> FALSE, l |-> <<>>, d |-> <<>>]
JStr(cs) == [t |-> "str", s |-> cs, b |-> FALSE, l |-> <<>>, d |-> <<>>]
JNum(digits) == [t |-> "num", s |-> digits, b |-> FALSE, l |-> <<>>, d |-> <<>>]
JBool(v) == [t |-> "bool", s |-> <<>>, b |-> v, l |-> <<>>, d |-> <<>>]
JList(items) == [t |-> "list", s |-> <<>>, b |-> FALSE, l |-> items, d |-> <<>>]
JDict(pairs) == [t |-> "dict", s |-> <<>>, b |-> FALSE, l |-> <<>>, d |-> pairs]

\* one key/value pair of a mapping
KV(key, v) == [k |-> key, v |-> v]

\* isinstance(v, dict) / list / str
IsDict(v) == v.t = "dict"
IsList(v) == v.t = "list"
IsStr(v) == v.t = "str"

\* truth value of a Python object
Truthy(v) ==
    CASE v.t = "null" -> FALSE
      [] v.t = "bool" -> v.b
      [] v.t = "num"  -> v.s # <<"0">>
      [] v.t = "str"  -> v.s # <<>>
      [] v.t = "list" -> v.l # <<>>
      [] v.t = "dict" -> v.d # <<>>

\* key in mapping
Has(m, key) == \E i \in 1..Len(m.d) : m.d[i].k = key

\* mapping.get(key, default)
Get(m, key, default) ==
    IF Has(m, key)
    THEN m.d[CHOOSE i \in 1..Len(m.d) : m.d[i].k = key].v
    ELSE default

\* a or b
Or(a, b) == IF Truthy(a) THEN a ELSE b

\* str(v): a string is itself, None is 'None', a number its digits, a
\* boolean 'True' or 'False', a list or mapping its (non-empty) repr
Str(v) ==
    CASE v.t = "str"  -> v.s
      [] v.t = "null" -> <<"N", "o", "n", "e">>
      [] v.t = "num"  -> v.s
      [] v.t = "bool" -> IF v.b THEN <<"T", "r", "u", "e">>
                         ELSE <<"F", "a", "l", "s", "e">>
      [] v.t = "list" -> <<"[", "]">>
      [] v.t = "dict" -> <<"{", "}">>

\* the literals of the adapter: '无题', '佚名', '孔子', '先秦', '未知',
\* '未知篇章', '经典篇章'
WuTi == <<"wu", "ti">>
YiMing == <<"yi", "ming">>
KongZi == <<"kong", "zi">>
XianQin == <<"xian", "qin">>
WeiZhi == <<"wei", "zhi">>
WeiZhiPianZhang == <<"wei", "zhi", "pian", "zhang">>
JingDianPianZhang == <<"jing", "dian", "pian", "zhang">>

\* the poem record the adapter builds in its own shapes
Record(title, author, dynasty, paragraphs) ==
    JDict(<<KV("title", title), KV("author", author), KV("dynasty", dynasty),
            KV("paragraphs", paragraphs)>>)

\* _infer_dynasty_from_content (lines 498-504)
_infer_dynasty_from_content(poem_data) ==
    IF Truthy(Get(poem_data, "dynasty", JNull))
    THEN JStr(Str(Get(poem_data, "dynasty", JNull)))
    ELSE JStr(WeiZhi)

\* the isinstance test of an item left out
ItemAlwaysTaken(item) == TRUE

\* isinstance(item, dict) before an item's fields are read (lines 142, 154,
\* 185, 207, 222)
ItemIsDict(item) == IsDict(item)

\* item.get(...) raises AttributeError on anything but a mapping
GetRaises(item) == ~IsDict(item)

RECURSIVE Mentions(_, _)
\* some keyword of kws occurs in str(v).lower(): in a string or a key of v
\* at any depth (keywords are single characters of the model)
Mentions(v, kws) ==
    \/ \E i \in 1..Len(v.s) : v.s[i] \in kws
    \/ \E i \in 1..Len(v.l) : Mentions(v.l[i], kws)
    \/ \E i \in 1..Len(v.d) : v.d[i].k \in kws \/ Mentions(v.d[i].v, kws)

\* the keywords of lines 250 and 261 ('论语', '大学', '中庸', '孟子';
\* '诗经', '楚辞'), each one character of the model
LunyuWords == {"LUNYU", "DAXUE", "ZHONGYONG", "MENGZI"}
ShijingWords == {"SHIJING", "CHUCI"}

\* An extracted record with the item of the document it was made from.
Poem(rec, src) == [rec |-> rec, src |-> src]

RECURSIVE ConcatAll(_)
ConcatAll(ss) == IF ss = <<>> THEN <<>> ELSE Head(ss) \o ConcatAll(Tail(ss))

\* the items of a list the loop takes (those passing the isinstance test)
Taken(items) == SelectSeq(items, ItemIsDict)

\* a loop over the taken items raises when one of them is no mapping
LoopRaises(items) ==
    \E i \in 1..Len(Taken(items)) : GetRaises(Taken(items)[i])

\* lines 139-144: a list of records
FromList(data) ==
    LET items == Taken(data.l)
    IN  [i \in 1..Len(items) |-> Poem(items[i], items[i])]

\* lines 151-164: 'content' holds a list
FromContent(data, fallback_author) ==
    LET items == Taken(Get(data, "content", JNull).l)
        one(item) ==
            IF Has(item, "content") /\ IsList(Get(item, "content", JNull))
            THEN Poem(Record(Get(item, "title", JStr(WuTi)),
                             Get(item, "author", Or(fallback_author, JStr(YiMing))),
                             Get(item, "dynasty", _infer_dynasty_from_content(item)),
                             Get(item, "content", JNull)),
                      item)
            ELSE Poem(item, item)
    IN  [i \in 1..Len(items) |-> one(items[i])]

\* lines 167-180: 'paragraphs' holds a list
FromParagraphs(data, fallback_author) ==
    LET paragraphs == Get(data, "paragraphs", JNull).l
    IN  IF Has(data, "chapter")
        THEN [i \in 1..Len(paragraphs) |->
                Poem(Record(Get(data, "chapter", JNull),
                            Or(fallback_author, JStr(KongZi)),
                            JStr(XianQin),
                            JList(<<paragraphs[i]>>)),
                     data)]
        ELSE <<Poem(data, data)>>

\* lines 183-202: 'chapters' holds a list
FromChapters(data, fallback_author) ==
    LET chapters == Taken(Get(data, "chapters", JNull).l)
        one(chapter) ==
            IF Has(chapter, "paragraphs") /\ IsList(Get(chapter, "paragraphs", JNull))
            THEN LET paras == Get(chapter, "paragraphs", JNull).l
                 IN  [j \in 1..Len(paras) |->
                        Poem(Record(Or(Get(chapter, "title", JNull),
                                       Get(chapter, "chapter", JStr(WeiZhiPianZhang))),
                                    Get(chapter, "author", fallback_author),
                                    Get(chapter, "dynasty", Get(data, "dynasty", JNull)),
                                    IF IsStr(paras[j]) THEN JList(<<paras[j]>>)
                                    ELSE paras[j]),
                             chapter)]
            ELSE <<Poem(Record(Get(chapter, "title", JStr(WeiZhiPianZhang)),
                               Get(chapter, "author", fallback_author),
                               Get(chapter, "dynasty", Get(data, "dynasty", JNull)),
                               Get(chapter, "paragraphs", JList(<<>>))),
                        chapter)>>
    IN  ConcatAll([i \in 1..Len(chapters) |-> one(chapters[i])])

\* lines 205-213: 'sections' holds a list
FromSections(data, fallback_author) ==
    LET sections == Taken(Get(data, "sections", JNull).l)
        one(section) ==
            Poem(Record(Get(section, "title", Get(data, "title", JStr(WuTi))),
                        Get(section, "author", fallback_author),
                        Get(section, "dynasty", Get(data, "dynasty", JNull)),
                        Get(section, "paragraphs",
                            Get(section, "content", JList(<<>>)))),
                 section)
    IN  [i \in 1..Len(sections) |-> one(sections[i])]

\* lines 220-228: 'text' holds a list
FromText(data, fallback_author) ==
    LET items == Taken(Get(data, "text", JNull).l)
        one(text_item) ==
            Poem(Record(Get(text_item, "title", Get(data, "title", JStr(WuTi))),
                        Get(text_item, "author", fallback_author),
                        Get(text_item, "dynasty",
                            Get(data, "dynasty", JStr(WeiZhi))),
                        Get(text_item, "paragraphs",
                            Get(text_item, "content", JList(<<>>)))),
                 text_item)
    IN  [i \in 1..Len(items) |-> one(items[i])]

\* possible_fields of line 233, in order
possible_fields == <<"content", "paragraphs", "text", "verses", "lines">>

\* lines 231-245: the first of possible_fields that holds a list decides
FromPossibleFields(data, fallback_author) ==
    LET hits == {i \in 1..Len(possible_fields) :
                   /\ Has(data, possible_fields[i])
                   /\ IsList(Get(data, possible_fields[i], JNull))}
    IN  IF hits = {} THEN <<>>
        ELSE LET field == possible_fields[CHOOSE i \in hits : \A j \in hits : i <= j]
                 content_list == Get(data, field, JNull)
             IN  IF Truthy(content_list) /\ IsStr(content_list.l[1])
                 THEN <<Poem(Record(Get(data, "title", JStr(WuTi)),
                                    Get(data, "author", fallback_author),
                                    Get(data, "dynasty", JStr(WeiZhi)),
                                    content_list),
                             data)>>
                 ELSE <<>>

\* lines 248-268: documents that name a classic
FromClassics(data) ==
    IF Mentions(data, LunyuWords)
    THEN IF Has(data, "paragraphs") /\ IsList(Get(data, "paragraphs", JNull))
         THEN <<Poem(Record(Get(data, "chapter",
                                Get(data, "title", JStr(JingDianPianZhang))),
                            JStr(KongZi), JStr(XianQin),
                            Get(data, "paragraphs", JNull)),
                     data)>>
         ELSE <<>>
    ELSE IF Mentions(data, ShijingWords) /\ Has(data, "title")
    THEN <<Poem(Record(Get(data, "title", JNull),
                       Get(data, "author", JStr(YiMing)),
                       Get(data, "dynasty", JStr(XianQin)),
                       Get(data, "paragraphs", Get(data, "content", JList(<<>>)))),
                data)>>
    ELSE <<>>

\* The list in which a shape's loop reads the fields of its items, if the
\* document takes such a shape (lines 153, 184, 206, 221).
LoopedItems(data) ==
    CASE ~IsDict(data) -> <<>>
      [] Has(data, "content") /\ IsList(Get(data, "content", JNull)) ->
            Get(data, "content", JNull).l
      [] Has(data, "paragraphs") /\ IsList(Get(data, "paragraphs", JNull)) -> <<>>
      [] Has(data, "chapters") /\ IsList(Get(data, "chapters", JNull)) ->
            Get(data, "chapters", JNull).l
      [] Has(data, "sections") /\ IsList(Get(data, "sections", JNull)) ->
            Get(data, "sections", JNull).l
      [] Has(data, "title") /\ (Has(data, "paragraphs") \/ Has(data, "content")) ->
            <<>>
      [] Has(data, "text") /\ IsList(Get(data, "text", JNull)) ->
            Get(data, "text", JNull).l
      [] OTHER -> <<>>

\* lines 139-228: the shape the document takes
ByShape(data, fallback_author) ==
    CASE Has(data, "content") /\ IsList(Get(data, "content", JNull)) ->
            FromContent(data, fallback_author)
      [] Has(data, "paragraphs") /\ IsList(Get(data, "paragraphs", JNull)) ->
            FromParagraphs(data, fallback_author)
      [] Has(data, "chapters") /\ IsList(Get(data, "chapters", JNull)) ->
            FromChapters(data, fallback_author)
      [] Has(data, "sections") /\ IsList(Get(data, "sections", JNull)) ->
            FromSections(data, fallback_author)
      [] Has(data, "title") /\ (Has(data, "paragraphs") \/ Has(data, "content")) ->
            <<Poem(data, data)>>
      [] Has(data, "text") /\ IsList(Get(data, "text", JNull)) ->
            FromText(data, fallback_author)
      [] OTHER -> <<>>

\* _extract_poems_from_data (lines 134-270): the records with the items they
\* were made from, the file-level author, and whether the call raised
\* instead of returning
_extract_poems_from_data(data) ==
    IF LoopRaises(LoopedItems(data))
    THEN [raised |-> TRUE, poems |-> <<>>, fallback_author |-> JNull]
    ELSE IF IsList(data)
    THEN [raised |-> FALSE, poems |-> FromList(data), fallback_author |-> JNull]
    ELSE IF ~IsDict(data)
    THEN [raised |-> FALSE, poems |-> <<>>, fallback_author |-> JNull]
    ELSE LET fallback_author == Get(data, "author", JNull)
             shaped == ByShape(data, fallback_author)
             fields == IF shaped = <<>>
                       THEN FromPossibleFields(data, fallback_author)
                       ELSE shaped
             poems == IF fields = <<>> THEN FromClassics(data) ELSE fields
         IN  [raised |-> FALSE, poems |-> poems,
              fallback_author |-> fallback_author]

(***************************************************************************)
(* process_poem_data and _infer_dynasty.                                   *)
(***************************************************************************)
\* the slices of lines 277 and 290-291
TitleLimit == 500
NameLimit == 200

\* the slice left out
TruncateNothing(s, n) == s

\* s[:n]
Truncate(s, n) == SubSeq(s, 1, Min(Len(s), n))

\* OpenCC 't2s' on one character: the traditional forms of the model ("FU",
\* "SHI") become their simplified ones, every other character stays
T2S(c) ==
    CASE c = "FU" -> "fu"
      [] c = "SHI" -> "shi"
      [] OTHER -> c

\* self.converter.convert(s)
Convert(s) == [i \in 1..Len(s) |-> T2S(s[i])]

\* A file path as far as the code reads it: the keywords of the three tables
\* that occur in file_path.as_posix().lower().  The keys in Chinese
\* characters of classical_texts carry the prefix "ZH_".
PathOf(name, has) == [name |-> name, has |-> has]

\* keyword in file_path_str
Occurs(keyword, file_path) == keyword \in file_path.has

\* path_author_map (lines 98-100), in order
path_author_map ==
    <<KV("caocao", <<"cao", "cao">>),
      KV("nalanxingde", <<"na", "lan", "xing", "de">>),
      KV("shijing", YiMing),
      KV("sishuwujing/lunyu", KongZi)>>

\* path_keyword_map (lines 103-108), in order
path_keyword_map ==
    <<KV("tang", <<"tang", "dai">>), KV("quan_tang_shi", <<"tang", "dai">>),
      KV("song", <<"song", "dai">>), KV("yuan", <<"yuan", "dai">>),
      KV("yuanqu", <<"yuan", "dai">>), KV("ming", <<"ming", "dai">>),
      KV("qing", <<"qing", "dai">>), KV("wudai", <<"wu", "dai", "shi", "guo">>),
      KV("huajianji", <<"wu", "dai", "shi", "guo">>),
      KV("nantang", <<"wu", "dai", "shi", "guo">>),
      KV("jin", <<"liang", "jin">>), KV("nanbeichao", <<"nan", "bei", "chao">>),
      KV("sui", <<"sui", "dai">>), KV("caocao", <<"liang", "han">>),
      KV("jianan", <<"liang", "han">>), KV("shijing", XianQin),
      KV("chuci", XianQin), KV("sishuwujing", XianQin), KV("lunyu", XianQin)>>

\* classical_texts (lines 514-531), in order
classical_texts ==
    <<KV("ZH_shijing", XianQin), KV("ZH_chuci", XianQin),
      KV("ZH_lunyu", XianQin), KV("ZH_mengzi", XianQin),
      KV("ZH_daxue", XianQin), KV("ZH_zhongyong", XianQin),
      KV("ZH_sishuwujing", XianQin), KV("ZH_mengxue", <<"gu", "dai">>),
      KV("shijing", XianQin), KV("chuci", XianQin), KV("lunyu", XianQin),
      KV("mengzi", XianQin), KV("daxue", XianQin), KV("zhongyong", XianQin),
      KV("sishuwujing", XianQin), KV("mengxue", <<"gu", "dai">>)>>

\* the entries of a table whose keyword occurs in the path
Matches(table, file_path) ==
    {i \in 1..Len(table) : Occurs(table[i].k, file_path)}

\* the value of the first entry of a table whose keyword occurs in the path
\* (the loops of lines 282-285, 533-535 and 538-540)
FirstMatch(table, file_path) ==
    table[CHOOSE i \in Matches(table, file_path) :
            \A j \in Matches(table, file_path) : i <= j].v

\* the path keywords tried before the classical texts
InferDynastyPathFirst(author, file_path, dynasty_of) ==
    IF author \in DOMAIN dynasty_of THEN dynasty_of[author]
    ELSE IF Matches(path_keyword_map, file_path) # {}
    THEN FirstMatch(path_keyword_map, file_path)
    ELSE IF Matches(classical_texts, file_path) # {}
    THEN FirstMatch(classical_texts, file_path)
    ELSE WeiZhi

\* _infer_dynasty (lines 506-542)
_infer_dynasty(author, file_path, dynasty_of) ==
    IF author \in DOMAIN dynasty_of THEN dynasty_of[author]
    ELSE IF Matches(classical_texts, file_path) # {}
    THEN FirstMatch(classical_texts, file_path)
    ELSE IF Matches(path_keyword_map, file_path) # {}
    THEN FirstMatch(path_keyword_map, file_path)
    ELSE WeiZhi

\* ''.join(v) raises TypeError unless v is a string, a mapping or a list of
\* strings
JoinRaises(v) ==
    CASE v.t \in {"str", "dict"} -> FALSE
      [] v.t = "list" -> \E i \in 1..Len(v.l) : ~IsStr(v.l[i])
      [] OTHER -> TRUE

\* only the first string of a list is taken
JoinFirstOnly(v) ==
    CASE v.t = "str" -> v.s
      [] v.t = "dict" -> [i \in 1..Len(v.d) |-> v.d[i].k]
      [] OTHER -> IF v.l = <<>> THEN <<>> ELSE v.l[1].s

\* ''.join(v): the strings of a list, the characters of a string, the keys
\* of a mapping (a key is one character of the model)
Join(v) ==
    CASE v.t = "str" -> v.s
      [] v.t = "dict" -> [i \in 1..Len(v.d) |-> v.d[i].k]
      [] OTHER -> ConcatAll([i \in 1..Len(v.l) |-> v.l[i].s])

\* lines 279-287: the author string before it is cleaned
AuthorStr(poem_data, file_path, fallback_author) ==
    LET author_str == Get(poem_data, "author", fallback_author)
    IN  IF Truthy(author_str) THEN author_str
        ELSE IF Matches(path_author_map, file_path) # {}
        THEN JStr(FirstMatch(path_author_map, file_path))
        ELSE JStr(YiMing)

\* process_poem_data (lines 272-300).  none: the call returned None (no
\* content, or an exception inside the try block); inferred: line 296 called
\* _infer_dynasty.
process_poem_data(poem_data, file_path, fallback_author, dynasty_of) ==
    LET title == Truncate(Convert(Strip(Str(Get(poem_data, "title", JStr(WuTi))))),
                          TitleLimit)
        author_str == AuthorStr(poem_data, file_path, fallback_author)
        author == Truncate(Convert(Strip(author_str.s)), NameLimit)
        dynasty == Truncate(Convert(Strip(Str(Get(poem_data, "dynasty", JStr(<<>>))))),
                            NameLimit)
        content_list == Get(poem_data, "paragraphs", JList(<<>>))
        content == Convert(Join(content_list))
        nothing == [none |-> TRUE, inferred |-> FALSE,
                    poem |-> [title |-> <<>>, author |-> <<>>, dynasty |-> <<>>,
                              content |-> <<>>]]
    IN  IF ~IsStr(author_str) \/ JoinRaises(content_list) THEN nothing
        ELSE IF content = <<>> THEN nothing
        ELSE [none |-> FALSE, inferred |-> (dynasty = <<>>),
              poem |-> [title |-> title, author |-> author,
                        dynasty |-> IF dynasty = <<>>
                                    THEN _infer_dynasty(author, file_path,
                                                        dynasty_of)
                                    ELSE dynasty,
                        content |-> content]]

\* lines 122-128: the (author, dynasty) pairs the pre-scan takes from the
\* records of one file
ScanPairs(poems) ==
    LET both(p) == /\ Truthy(Get(p.rec, "author", JNull))
                   /\ Truthy(Get(p.rec, "dynasty", JNull))
        sel == SelectSeq(poems, both)
        clean(v) == Truncate(Convert(Strip(Str(v))), NameLimit)
    IN  [i \in 1..Len(sel) |->
            <<clean(Get(sel[i].rec, "author", JNull)),
              clean(Get(sel[i].rec, "dynasty", JNull))>>]

\* Counter(dynasties).most_common(1)[0][0]: the most frequent dynasty of the
\* list, the first encountered among equals
MostCommon(dynasties) ==
    LET count(d) == Cardinality({i \in 1..Len(dynasties) : dynasties[i] = d})
        first(d) == CHOOSE i \in 1..Len(dynasties) :
                       /\ dynasties[i] = d
                       /\ \A j \in 1..(i - 1) : dynasties[j] # d
    IN  CHOOSE d \in Range(dynasties) :
            \A e \in Range(dynasties) \ {d} :
                count(d) > count(e) \/ (count(d) = count(e) /\ first(d) < first(e))

\* _create_author_dynasty_map (lines 114-132) on the pairs of all files
_create_author_dynasty_map(pairs) ==
    LET of(a) == LET isA(p) == p[1] = a
                     sel == SelectSeq(pairs, isA)
                 IN  [i \in 1..Len(sel) |-> sel[i][2]]
    IN  [a \in {pairs[i][1] : i \in 1..Len(pairs)} |-> MostCommon(of(a))]

(***************************************************************************)
(* The import of one source file: the loop body of run_import (lines       *)
(* 439-462) on a document, with the frequency table __init__ built.        *)
(***************************************************************************)
\* largest number of items of a document's list that is explored
MaxItems == 2

\* strings of the explored documents
ShortParagraphs ==
    JList(<<JStr(<<"yi", "ju", "STOP">>), JStr(<<"er", "ju", "BANG">>)>>)
LongParagraphs ==
    JList(<<JStr(<<"a", "a", "a", "a", "STOP">>),
            JStr(<<"b", "b", "b", "b", "b", "BANG">>)>>)
FileAuthor == JStr(<<"A">>)
FileDynasty == JStr(<<"D">>)
ItemAuthor == JStr(<<" ", "du", "FU">>)
ItemDynasty == JStr(<<"E">>)

\* a field that may be missing: no pair, or the pair
Optional(key, v) == {<<>>, <<KV(key, v)>>}

\* the items of the lists: a title, the paragraphs under the key `field`,
\* and perhaps an author and a dynasty
Items(field, paragraphs) ==
    {JDict(<<KV("title", JStr(<<"T">>))>> \o a \o d \o <<KV(field, paragraphs)>>) :
        a \in Optional("author", ItemAuthor),
        d \in Optional("dynasty", ItemDynasty)}

\* a list of n times the item
Repeat(item, n) == JList([i \in 1..n |-> item])

\* the file-level fields a mapping may carry
FileFields ==
    {a \o d : a \in Optional("author", FileAuthor),
              d \in Optional("dynasty", FileDynasty)}

\* Documents of the recognised shapes over the paragraphs ps.
ShapedDocs(ps) ==
    {Repeat(item, n) : item \in Items("paragraphs", ps), n \in 1..MaxItems}
    \cup {JDict(f \o <<KV(key, Repeat(item, n))>>) :
            f \in FileFields,
            key \in {"content", "chapters", "sections", "text"},
            item \in Items("paragraphs", ps) \cup Items("content", ps),
            n \in 1..MaxItems}
    \cup {JDict(f \o <<KV("chapter", JStr(<<"C">>)), KV("paragraphs", ps)>>) :
            f \in FileFields}
    \cup {JDict(<<KV("title", JStr(<<"T">>))>> \o f \o <<KV("paragraphs", ps)>>) :
            f \in FileFields}
    \cup {JDict(f \o <<KV("verses", ps)>>) : f \in FileFields}
    \cup {JDict(<<KV("title", JStr(<<"LUNYU">>))>> \o f
                \o <<KV("content", JList(<<>>)), KV("paragraphs", ps)>>) :
            f \in FileFields}
    \cup {JDict(<<KV("title", JStr(<<"SHIJING">>))>> \o f) : f \in FileFields}

\* field names the adapter looks for
RecognisedKeys ==
    <<"content", "paragraphs", "chapter", "chapters", "sections", "title",
      "text", "verses", "lines", "author", "dynasty">>

\* values of every JSON type, some of them items that carry a recognised
\* field of an unexpected type
OddValues ==
    {JNull, JNum(<<"7">>), JBool(TRUE), JStr(<<"x">>), JList(<<>>),
     JList(<<JNum(<<"7">>)>>), JList(<<JStr(<<"x">>)>>), JDict(<<>>),
     JList(<<JList(<<JStr(<<"x">>)>>), JDict(<<KV("content", JNum(<<"7">>))>>)>>),
     JList(<<JDict(<<KV("author", JNum(<<"7">>)),
                     KV("paragraphs", JDict(<<KV("x", JNull)>>))>>),
             JNull>>)}

\* Documents of no expected shape: a bare value, or a mapping of one or two
\* recognised fields with any of the values.
OddDocs ==
    OddValues
    \cup {JDict(<<KV(RecognisedKeys[i], v)>>) :
            i \in 1..Len(RecognisedKeys), v \in OddValues}
    \cup {JDict(<<KV(RecognisedKeys[ij[1]], vw[1]), KV(RecognisedKeys[ij[2]], vw[2])>>) :
            ij \in {x \in (1..Len(RecognisedKeys)) \X (1..Len(RecognisedKeys)) :
                      x[1] < x[2]},
            vw \in OddValues \X OddValues}

\* a string of n times the character c
Chars(c, n) == [i \in 1..n |-> c]

\* Documents whose title, author and dynasty are as long as the limits of
\* lines 277 and 290-291 or one character longer: a standard poem, and a
\* mapping of the 'content' shape whose file-level author is the fallback of
\* its item.
LongFieldDocs ==
    {JDict(<<KV("title", JStr(t)), KV("author", JStr(a)), KV("dynasty", JStr(d)),
             KV("paragraphs", LongParagraphs)>>) :
        t \in {Chars("FU", TitleLimit), <<" ">> \o Chars("FU", TitleLimit + 1)},
        a \in {Chars("SHI", NameLimit), Chars("SHI", NameLimit + 1) \o <<" ">>},
        d \in {Chars("D", NameLimit), Chars("D", NameLimit + 1)}}
    \cup {JDict(<<KV("author", JStr(Chars("SHI", NameLimit + 1))),
                  KV("content",
                     JList(<<JDict(<<KV("title", JStr(Chars("FU", TitleLimit + 1))),
                                     KV("dynasty", JStr(Chars("D", NameLimit + 1))),
                                     KV("content", LongParagraphs)>>)>>))>>)}

\* the explored file paths
Paths ==
    {PathOf("quantangshi/poet.tang.0.json", {"tang"}),
     PathOf("caocaoshiji/caocao.json", {"caocao"}),
     PathOf("ZH_shijing/shijing.json", {"ZH_shijing", "shijing", "jin"}),
     PathOf("ZH_mengxue/tangshisanbaishou.json", {"ZH_mengxue", "tang"}),
     PathOf("wudaishici/nantang/poetrys.json", {"nantang", "tang"}),
     PathOf("youmengying/youmengying.json", {})}

\* the (author, dynasty) pairs the pre-scan finds in the other files of the
\* corpus
OtherPairs ==
    {<<>>,
     <<<<<<"A">>, <<"X">>>>, <<<<"du", "fu">>, <<"Y">>>>, <<YiMing, <<"Z">>>>>>}

\* __init__ (line 111) on a corpus that holds the document d
MapOver(d, others) ==
    LET res == _extract_poems_from_data(d)
    IN  _create_author_dynasty_map(
            others \o (IF res.raised THEN <<>> ELSE ScanPairs(res.poems)))

DocInit ==
    /\ \/ /\ doc \in ShapedDocs(ShortParagraphs) \cup ShapedDocs(LongParagraphs)
          /\ path \in Paths
          /\ \E others \in OtherPairs : author_dynasty_map = MapOver(doc, others)
       \/ /\ doc \in OddDocs
          /\ path = PathOf("youmengying/youmengying.json", {})
          /\ author_dynasty_map = MapOver(doc, <<>>)
       \/ /\ doc \in LongFieldDocs
          /\ path = PathOf("youmengying/youmengying.json", {})
          /\ author_dynasty_map = MapOver(doc, <<>>)
    /\ dpc = "extract"
    /\ poems_list = <<>>
    /\ file_level_author = JNull
    /\ outcomes = <<>>

\* lines 443-447: the extraction; an exception goes to the handler of line
\* 463, a document without records is checkpointed at once
Extract ==
    /\ dpc = "extract"
    /\ LET res == _extract_poems_from_data(doc) IN
        /\ poems_list' = res.poems
        /\ file_level_author' = res.fallback_author
        /\ dpc' = IF res.raised THEN "raised"
                  ELSE IF res.poems = <<>> THEN "marked" ELSE "process"
    /\ UNCHANGED <<doc, path, author_dynasty_map, outcomes>>
    /\ UNCHANGED <<runVars, embVars, poolVars, splitVars, loadVars, scanVars,
                   searchVars, toolVars>>

\* lines 449-457: every record through process_poem_data; the accepted ones
\* make the batch (a file of the model never fills a batch of db_batch_size)
Process ==
    /\ dpc = "process"
    /\ LET outs == [i \in 1..Len(poems_list) |->
                      process_poem_data(poems_list[i].rec, path,
                                        file_level_author, author_dynasty_map)]
           accepted(o) == ~o.none
           kept == SelectSeq(outs, accepted)
       IN
        /\ outcomes' = outs
        /\ poem_batch' = [i \in 1..Len(kept) |-> kept[i].poem]
        /\ dpc' = IF kept = <<>> THEN "marked" ELSE "load"
    /\ UNCHANGED <<doc, path, author_dynasty_map, poems_list, file_level_author>>
    /\ UNCHANGED <<tables, lpc, calls, sentenceList, embeddings, committed,
                   tablesBefore, complete>>
    /\ UNCHANGED <<runVars, embVars, poolVars, splitVars, scanVars, searchVars,
                   toolVars>>

\* lines 459-462: the batch of the file, with every database statement
\* succeeding; the embedding calls give every vector or fail for every
\* sentence
Load ==
    /\ dpc = "load"
    /\ LET per == SentencesOf(poem_batch)
           all_s == Flatten(per)
       IN  \E ok \in BOOLEAN :
            LET embs == [k \in 1..Len(all_s) |->
                           IF ok THEN Emb(all_s[k]) ELSE None]
            IN  /\ sentenceList' = all_s
                /\ embeddings' = [raised |-> FALSE, list |-> embs]
                /\ tables' = LoadBatch(tables, poem_batch, per, embs, "none")
                /\ complete' = ok
    /\ committed' = TRUE
    /\ tablesBefore' = tables
    /\ calls' = calls + 1
    /\ dpc' = "marked"
    /\ UNCHANGED <<lpc, poem_batch>>
    /\ UNCHANGED <<doc, path, author_dynasty_map, poems_list, file_level_author,
                   outcomes>>
    /\ UNCHANGED <<runVars, embVars, poolVars, splitVars, scanVars, searchVars,
                   toolVars>>

NextDoc == Extract \/ Process \/ Load

InitDoc ==
    RunOff /\ EmbOff /\ PoolOff /\ SplitOff /\ LoadOff /\ DocInit /\ MoreOff

SpecDoc == InitDoc /\ [][NextDoc]_vars

(***************************************************************************)
(* The start of the importer: the pre-scan of __init__ (lines 110-132)     *)
(* and the file loop of the run_import that follows (lines 431-465), on    *)
(* whole documents.                                                        *)
(***************************************************************************)
\* largest number of source files of an explored corpus
MaxScanFiles == 3

\* the path of every file of the explored corpora
ScanPath == PathOf("quantangshi/poet.tang.0.json", {"tang"})

\* A source file: how reading it ends ("ok", "os": open raises OSError,
\* "json": json.load raises a ValueError) and the document it holds.
ScanFile(kind, d) == [kind |-> kind, doc |-> d, path |-> ScanPath]

\* The files of the explored corpora: a poem of author A under dynasty D, a
\* list of two poems of A under E, a poem of A without a dynasty, and two
\* files that cannot be read.
ScanChoices ==
    LET poem(fields) ==
            JDict(<<KV("title", JStr(<<"T">>))>> \o fields
                  \o <<KV("paragraphs", LongParagraphs)>>)
        a == KV("author", FileAuthor)
    IN  {ScanFile("ok", poem(<<a, KV("dynasty", FileDynasty)>>)),
         ScanFile("ok", Repeat(poem(<<a, KV("dynasty", ItemDynasty)>>), 2)),
         ScanFile("ok", poem(<<a>>)),
         ScanFile("os", JNull),
         ScanFile("json", JNull)}

\* only the files that are not in the checkpoint log would be scanned
ScanListNew(files, done) ==
    LET new(i) == i \notin done
    IN  SelectSeq([i \in 1..Len(files) |-> i], new)

\* line 116: the pre-scan goes through self.load_json_files(), whatever the
\* checkpoint log holds
ScanList(files, done) == [i \in 1..Len(files) |-> i]

\* only an OSError would be caught
ScanCaughtOsOnly(kind) == kind = "os"

\* lines 129-130: except Exception catches whatever reading or extracting
\* raises
ScanCaught(kind) == kind \in {"os", "json", "extract"}

ScanInit ==
    /\ \E n \in 1..MaxScanFiles : scanFiles \in [1..n -> ScanChoices]
    /\ checkpoint \in SUBSET (1..Len(scanFiles))
    /\ scpc = "scan"
    /\ scanned = 0
    /\ author_dynasties = <<>>
    /\ loaded = 0
    /\ mapAtReady = <<>>
    /\ tables = EmptyTables
    /\ author_dynasty_map = <<>>

\* lines 117-130: one round of the loop of the pre-scan
ScanNext ==
    /\ scpc = "scan"
    /\ scanned < Len(ScanList(scanFiles, checkpoint))
    /\ LET f == scanFiles[ScanList(scanFiles, checkpoint)[scanned + 1]]
           res == _extract_poems_from_data(f.doc)
           raised == IF f.kind # "ok" THEN f.kind
                     ELSE IF res.raised THEN "extract" ELSE "none"
       IN  IF raised = "none"
           THEN /\ author_dynasties' = author_dynasties \o ScanPairs(res.poems)
                /\ scanned' = scanned + 1
                /\ scpc' = scpc
           ELSE IF ScanCaught(raised)
           THEN /\ scanned' = scanned + 1
                /\ UNCHANGED <<author_dynasties, scpc>>
           ELSE /\ scpc' = "raised"
                /\ UNCHANGED <<author_dynasties, scanned>>
    /\ UNCHANGED <<scanFiles, checkpoint, loaded, mapAtReady>>
    /\ UNCHANGED <<tables, author_dynasty_map>>
    /\ UNCHANGED <<lpc, calls, poem_batch, sentenceList, embeddings, committed,
                   tablesBefore, complete>>
    /\ UNCHANGED <<doc, path, dpc, poems_list, file_level_author, outcomes>>
    /\ UNCHANGED <<runVars, embVars, poolVars, splitVars, searchVars, toolVars>>

\* lines 131-132 and 111: the table is built and __init__ returns
ScanEnd ==
    /\ scpc = "scan"
    /\ scanned = Len(ScanList(scanFiles, checkpoint))
    /\ author_dynasty_map' = _create_author_dynasty_map(author_dynasties)
    /\ mapAtReady' = _create_author_dynasty_map(author_dynasties)
    /\ scpc' = "ready"
    /\ UNCHANGED <<scanFiles, checkpoint, scanned, author_dynasties, loaded>>
    /\ UNCHANGED tables
    /\ UNCHANGED <<lpc, calls, poem_batch, sentenceList, embeddings, committed,
                   tablesBefore, complete>>
    /\ UNCHANGED <<doc, path, dpc, poems_list, file_level_author, outcomes>>
    /\ UNCHANGED <<runVars, embVars, poolVars, splitVars, searchVars, toolVars>>

\* lines 432 and 438-465: run_import goes to the next source file; a file in
\* the log is not in files_to_process, a file that cannot be read ends in the
\* handler of line 463, a file without records is checkpointed, and the
\* accepted records of any other file are loaded in one batch (every
\* database statement and every embedding call succeeds) before the file is
\* checkpointed.
ImportFile ==
    /\ scpc \in {"ready", "import"}
    /\ loaded < Len(scanFiles)
    /\ LET i == loaded + 1
           f == scanFiles[i]
           res == _extract_poems_from_data(f.doc)
           outs == [k \in 1..Len(res.poems) |->
                      process_poem_data(res.poems[k].rec, f.path,
                                        res.fallback_author, author_dynasty_map)]
           accepted(o) == ~o.none
           kept == SelectSeq(outs, accepted)
           batch == [k \in 1..Len(kept) |-> kept[k].poem]
           per == SentencesOf(batch)
           all_s == Flatten(per)
       IN  IF i \in checkpoint \/ f.kind # "ok" \/ res.raised
           THEN UNCHANGED <<tables, checkpoint>>
           ELSE /\ checkpoint' = checkpoint \cup {i}
                /\ tables' = LoadBatch(tables, batch, per,
                                       [k \in 1..Len(all_s) |-> Emb(all_s[k])],
                                       "none")
    /\ loaded' = loaded + 1
    /\ scpc' = "import"
    /\ UNCHANGED <<scanFiles, scanned, author_dynasties, mapAtReady>>
    /\ UNCHANGED author_dynasty_map
    /\ UNCHANGED <<lpc, calls, poem_batch, sentenceList, embeddings, committed,
                   tablesBefore, complete>>
    /\ UNCHANGED <<doc, path, dpc, poems_list, file_level_author, outcomes>>
    /\ UNCHANGED <<runVars, embVars, poolVars, splitVars, searchVars, toolVars>>

\* lines 466-468: the loop is over
ImportEnd ==
    /\ scpc \in {"ready", "import"}
    /\ loaded = Len(scanFiles)
    /\ scpc' = "done"
    /\ UNCHANGED <<scanFiles, checkpoint, scanned, author_dynasties, loaded,
                   mapAtReady>>
    /\ UNCHANGED <<loadVars, docVars>>
    /\ UNCHANGED <<runVars, embVars, poolVars, splitVars, searchVars, toolVars>>

NextScan == ScanNext \/ ScanEnd \/ ImportFile \/ ImportEnd

\* every variable of loadVars and docVars but `tables` and
\* `author_dynasty_map` is as in LoadOff and DocOff
InitScan ==
    /\ RunOff /\ EmbOff /\ PoolOff /\ SplitOff /\ SearchOff /\ ToolOff
    /\ ScanInit
    /\ lpc = "off"
    /\ calls = 0
    /\ poem_batch = <<>>
    /\ sentenceList = <<>>
    /\ embeddings = [raised |-> FALSE, list |-> <<>>]
    /\ committed = FALSE
    /\ tablesBefore = EmptyTables
    /\ complete = TRUE
    /\ doc = <<>>
    /\ path = <<>>
    /\ dpc = "off"
    /\ poems_list = <<>>
    /\ file_level_author = <<>>
    /\ outcomes = <<>>

SpecScan == InitScan /\ [][NextScan]_vars

(***************************************************************************)
(* The retrieval service (fastapi_app/main.py).  A vector has two          *)
(* components, counted in sixths so that the mean of up to three vectors   *)
(* of the model is exact; a distance and a score are counted in units of   *)
(* 10^-5.                                                                  *)
(***************************************************************************)
\* largest number of poems of an explored store (the store of more than
\* TotalCap poems apart)
MaxPoems == 2

\* largest number of phrases of an explored semantic query
MaxPhrases == 2

\* get_embedding's default max_retries (line 155)
EmbeddingRetries == 3

\* the cap of the reported total (line 428)
TotalCap == 1000

\* 1.0 in the unit of distances and scores
One == 100000

\* the vector the embedding model computes for a text
EmbeddingOf(t) ==
    CASE t = <<"x">> -> <<6, 0>>
      [] t = <<"y">> -> <<0, 6>>
      [] OTHER -> <<6, 6>>

\* a vector that is further from every query of the model than any vector
\* of EmbeddingOf
Far == <<-6, -6>>

\* What the embedding service answers to the requests of one get_embedding
\* call, attempt by attempt: "ok" (status 200 with the embedding), "format"
\* (status 200 without 'output'/'embeddings'), "status" (another status),
\* "exception" (requests.post or the parsing raises).
ReplySeqs ==
    {[a \in 1..EmbeddingRetries |-> "ok"],
     [a \in 1..EmbeddingRetries |-> IF a = 1 THEN "status" ELSE "ok"],
     [a \in 1..EmbeddingRetries |-> "format"],
     [a \in 1..EmbeddingRetries |-> "exception"]}

RECURSIVE EmbeddingAttempt(_, _, _)
\* lines 164-191: the retry loop from attempt number `a` (counted from 1)
EmbeddingAttempt(t, replies, a) ==
    IF a > EmbeddingRetries THEN None
    ELSE CASE replies[a] = "ok" -> EmbeddingOf(t)
           [] replies[a] = "format" -> None
           [] OTHER -> EmbeddingAttempt(t, replies, a + 1)

\* AliEmbeddingClient.get_embedding (lines 155-191)
get_embedding(t, replies) == EmbeddingAttempt(t, replies, 1)

RECURSIVE SumOf(_, _)
\* sum of component c of the vectors
SumOf(vs, c) == IF vs = <<>> THEN 0 ELSE Head(vs)[c] + SumOf(Tail(vs), c)

\* np.mean(embeddings, axis=0) (line 206)
Mean(vs) == [c \in 1..2 |-> SumOf(vs, c) \div Len(vs)]

\* if embedding: (line 199)
EmbeddingTruthy(e) == e # None /\ e # <<>>

\* lines 195-200: the embeddings that get_multi_embeddings averages
Kept(embs) == SelectSeq(embs, EmbeddingTruthy)

RECURSIVE SplitAt(_, _, _)
\* s.split(sep), cur being the piece in progress
SplitAt(s, sep, cur) ==
    IF s = <<>> THEN <<cur>>
    ELSE IF Head(s) = sep THEN <<cur>> \o SplitAt(Tail(s), sep, <<>>)
    ELSE SplitAt(Tail(s), sep, Append(cur, Head(s)))

\* line 361: [kw.strip() for kw in keywords.split(',') if kw.strip()]
ParseKeywords(keywords) ==
    LET nonEmpty(kw) == kw # <<>>
    IN  SelectSeq(StripAll(SplitAt(keywords, ",", <<>>)), nonEmpty)

RECURSIVE IsqrtIn(_, _, _)
\* the largest r in lo..hi with r * r <= n
IsqrtIn(n, lo, hi) ==
    IF lo = hi THEN lo
    ELSE LET mid == (lo + hi + 1) \div 2
         IN  IF mid * mid <= n THEN IsqrtIn(n, mid, hi)
             ELSE IsqrtIn(n, lo, mid - 1)

Isqrt(n) == IsqrtIn(n, 0, 46340)

Dot(a, b) == a[1] * b[1] + a[2] * b[2]

\* a <=> b, the cosine distance of the vector engine (line 383):
\* 1 - a.b / (|a| |b|)
Distance(a, b) ==
    One - ((Dot(a, b) * 10000000) \div Isqrt(Dot(a, a) * Dot(b, b) * 10000))

\* the largest element of a set of numbers
MaxOf(S) == CHOOSE x \in S : \A y \in S : y <= x

\* MIN(...) (line 383)
MinOf(S) == CHOOSE x \in S : \A y \in S : x <= y

\* the embeddings that are not NULL among the lines of poem p
Embedded(store, p) ==
    {store.lines[p][k] : k \in {i \in 1..Len(store.lines[p]) :
                                  store.lines[p][i] # None}}

\* Lines 380-387: per poem that has a line with an embedding, the smallest
\* distance of its embedded lines to the query vector.
Groups(store, q) ==
    {[id |-> p,
      distance |-> MinOf({Distance(e, q) : e \in Embedded(store, p)})] :
        p \in {r \in store.poems : Embedded(store, r) # {}}}

RECURSIVE Orders(_, _)
\* ORDER BY distance ASC LIMIT n (lines 388-389): the first n rows of every
\* order the engine may produce (rows of equal distance come in any order)
Orders(rows, n) ==
    IF n = 0 \/ rows = {} THEN {<<>>}
    ELSE LET least == MinOf({r.distance : r \in rows})
         IN  UNION {{<<r>> \o t : t \in Orders(rows \ {r}, n - 1)} :
                     r \in {x \in rows : x.distance = least}}

\* OFFSET n: the rows after the first n
Drop(s, n) == SubSeq(s, Min(n, Len(s)) + 1, Len(s))

\* round(x, 4) for x in units of 10^-5: to the nearest multiple of 10, a
\* half to the even one
Round4(x) ==
    LET r == x % 10
        q == x - r
    IN  IF r < 5 THEN q
        ELSE IF r > 5 THEN q + 10
        ELSE IF (q \div 10) % 2 = 0 THEN q ELSE q + 10

\* lines 416 and 424: the score of a row
Score(distance) == Round4(IF distance # 0 THEN One - distance ELSE 0)

\* the number of lines with an embedding
CountEmbeddedLines(store) ==
    Cardinality({pk \in UNION {{<<p, k>> : k \in 1..Len(store.lines[p])} :
                                 p \in store.poems} :
                    store.lines[pk[1]][pk[2]] # None})

\* lines 396-400: COUNT(DISTINCT poem_id) FROM lines WHERE embedding IS NOT NULL
CountEmbeddedPoems(store) ==
    Cardinality({p \in store.poems :
                    \E k \in 1..Len(store.lines[p]) : store.lines[p][k] # None})

\* the lines of one poem of an explored store, by their embeddings
LineChoices ==
    {<<None>>, <<<<0, 6>>, None>>, <<<<6, 0>>, <<6, 6>>>>}

\* A store of more poems with an embedded line than the cap of the total:
\* three poems near the queries and the others far from every query.
BigStore ==
    [poems |-> 1..(TotalCap + 1),
     lines |-> [p \in 1..(TotalCap + 1) |->
                  CASE p = 1 -> <<<<6, 0>>>>
                    [] p = 2 -> <<<<6, 6>>>>
                    [] p = 3 -> <<<<0, 6>>>>
                    [] OTHER -> <<Far>>]]

\* the explored values of limit and offset
Limits == {1, 2}
Offsets == {0, 1}

RECURSIVE JoinWith(_, _)
\* sep.join(ps)
JoinWith(ps, sep) ==
    IF Len(ps) = 1 THEN ps[1] ELSE ps[1] \o sep \o JoinWith(Tail(ps), sep)

\* The explored values of the parameter `keywords`: up to MaxPhrases phrases
\* separated by commas, with and without blanks, and strings without any
\* phrase or with an empty piece.
Keywords ==
    {<<>>, <<" ", ",">>, <<"x", ",", ",", "y">>}
    \cup {JoinWith(ps, sep) :
            ps \in UNION {[1..n -> {<<"x">>, <<"y">>}] : n \in 1..MaxPhrases},
            sep \in {<<",">>, <<" ", ",", " ">>}}

\* what the engine answered for a request that is not a keyword search
NoEngine == [fulltext |-> {}, fuzzy |-> {}, ts_rank |-> <<>>, similarity |-> <<>>]

\* a response that carries an error status
Failure(status) == [status |-> status, total |-> 0, results |-> <<>>, rows |-> <<>>]

SearchInit ==
    /\ \/ \E n \in 1..MaxPoems : \E lines_of \in [1..n -> LineChoices] :
             sdb = [poems |-> 1..n, lines |-> lines_of]
       \/ sdb = BigStore
    /\ api_key \in BOOLEAN
    /\ request = NoRequest
    /\ qpc = "idle"
    /\ keyword_list = <<>>
    /\ phrase_embeddings = <<>>
    /\ query_embedding = <<>>
    /\ response = NoResponse

\* A request of /search/semantic arrives: get_embedding_client (lines
\* 221-228) answers 503 without a client; lines 361-364 parse the keywords
\* and answer 400 when no phrase is left.
Receive ==
    /\ qpc = "idle"
    /\ \E kws \in Keywords, limit \in Limits, offset \in Offsets :
          /\ request' = [kind |-> "semantic", q |-> kws, limit |-> limit,
                         offset |-> offset, engine |-> NoEngine]
          /\ IF ~api_key
             THEN /\ response' = Failure(503)
                  /\ qpc' = "done"
                  /\ keyword_list' = <<>>
             ELSE IF ParseKeywords(kws) = <<>>
             THEN /\ response' = Failure(400)
                  /\ qpc' = "done"
                  /\ keyword_list' = <<>>
             ELSE /\ response' = response
                  /\ qpc' = "embed"
                  /\ keyword_list' = ParseKeywords(kws)
    /\ UNCHANGED <<sdb, api_key, phrase_embeddings, query_embedding>>
    /\ UNCHANGED <<runVars, embVars, poolVars, splitVars, loadVars, docVars,
                   scanVars, toolVars>>

\* Lines 369-373 with get_multi_embeddings (lines 193-207): one get_embedding
\* call per phrase; without any embedding the HTTPException of line 203 is
\* caught at line 371 and raised again with status 500, which lines 404-405
\* let through.
EmbedPhrases ==
    /\ qpc = "embed"
    /\ \E replies \in [1..Len(keyword_list) -> ReplySeqs] :
          LET embs == [k \in 1..Len(keyword_list) |->
                         get_embedding(Strip(keyword_list[k]), replies[k])]
          IN  /\ phrase_embeddings' = embs
              /\ IF Kept(embs) = <<>>
                 THEN /\ response' = Failure(500)
                      /\ qpc' = "done"
                      /\ query_embedding' = <<>>
                 ELSE /\ response' = response
                      /\ qpc' = "query"
                      /\ query_embedding' = Mean(Kept(embs))
    /\ UNCHANGED <<sdb, api_key, request, keyword_list>>
    /\ UNCHANGED <<runVars, embVars, poolVars, splitVars, loadVars, docVars,
                   scanVars, toolVars>>

\* Lines 376-431: the vector search, the count and the response; a database
\* error ends in the status 500 of line 408.
QueryStore ==
    /\ qpc = "query"
    /\ \/ response' = Failure(500)
       \/ \E order \in Orders(Groups(sdb, query_embedding),
                               request.offset + request.limit) :
             LET results == Drop(order, request.offset)
             IN  response' =
                     [status |-> 200,
                      total |-> Min(CountEmbeddedPoems(sdb), TotalCap),
                      results |-> [k \in 1..Len(results) |->
                                      [id |-> results[k].id,
                                       score |-> Score(results[k].distance)]],
                      rows |-> results]
    /\ qpc' = "done"
    /\ UNCHANGED <<sdb, api_key, request, keyword_list, phrase_embeddings,
                   query_embedding>>
    /\ UNCHANGED <<runVars, embVars, poolVars, splitVars, loadVars, docVars,
                   scanVars, toolVars>>

NextSearch == Receive \/ EmbedPhrases \/ QueryStore

InitSearch ==
    /\ RunOff /\ EmbOff /\ PoolOff /\ SplitOff /\ LoadOff /\ DocOff /\ ScanOff
    /\ ToolOff
    /\ SearchInit

SpecSearch == InitSearch /\ [][NextSearch]_vars

(***************************************************************************)
(* Keyword search (keyword_search, lines 249-344).  What the text engine   *)
(* matches and how it scores a row is the engine's answer to the request:  *)
(* the rows the full-text operator matches, the rows the trigram operator  *)
(* matches, and the score each of the two gives to a row, in tenths.       *)
(***************************************************************************)
\* the values of ts_rank the model explores (0: a rank of exactly 0)
RankValues == {0, 3, 6}

\* the values of similarity the model explores (a trigram match is above the
\* engine's threshold)
SimilarityValues == {3, 6}

\* lines 271-278: the rows of the full-text branch
FulltextRows(e) == {[id |-> p, score |-> e.ts_rank[p]] : p \in e.fulltext}

\* the rows of the trigram branch without the exclusion of lines 288-292
FuzzyRowsAll(e) == {[id |-> p, score |-> e.similarity[p]] : p \in e.fuzzy}

\* lines 283-292: the rows of the trigram branch, the rows the full-text
\* operator matches excluded
FuzzyRows(e) ==
    {[id |-> p, score |-> e.similarity[p]] : p \in e.fuzzy \ e.fulltext}

\* lines 280 and 294: UNION ALL of the branches, then SELECT DISTINCT over
\* the row (the other columns are functions of the id)
SearchRows(e) == FulltextRows(e) \cup FuzzyRows(e)

RECURSIVE ByScore(_)
\* ORDER BY score DESC, id (line 296)
ByScore(rows) ==
    IF rows = {} THEN <<>>
    ELSE LET first == CHOOSE r \in rows : \A x \in rows :
                          \/ r.score > x.score
                          \/ r.score = x.score /\ r.id <= x.id
         IN  <<first>> \o ByScore(rows \ {first})

\* LIMIT n OFFSET m (line 297)
Window(s, n, m) == SubSeq(s, Min(m, Len(s)) + 1, Min(m + n, Len(s)))

\* line 339: float(row['score']) if row['score'] else None
ScoreOut(score) == IF score # 0 THEN score ELSE None

\* lines 309-319: COUNT(DISTINCT id) over the UNION of the two matches
CountMatches(e) == Cardinality(e.fulltext \cup e.fuzzy)

\* A request of /search is answered (lines 249-344); a database error ends
\* in the status 500 of line 326.
KeywordSearch ==
    /\ qpc = "idle"
    /\ \E fulltext \in SUBSET sdb.poems, fuzzy \in SUBSET sdb.poems,
          ts_rank \in [sdb.poems -> RankValues],
          similarity \in [sdb.poems -> SimilarityValues],
          limit \in Limits, offset \in Offsets :
          LET e == [fulltext |-> fulltext, fuzzy |-> fuzzy,
                    ts_rank |-> ts_rank, similarity |-> similarity]
              results == Window(ByScore(SearchRows(e)), limit, offset)
          IN  /\ request' = [kind |-> "keyword", q |-> <<"x">>,
                             limit |-> limit, offset |-> offset, engine |-> e]
              /\ \/ response' = Failure(500)
                 \/ response' =
                       [status |-> 200,
                        total |-> CountMatches(e),
                        results |-> [k \in 1..Len(results) |->
                                        [id |-> results[k].id,
                                         score |-> ScoreOut(results[k].score)]],
                        rows |-> results]
    /\ qpc' = "done"
    /\ UNCHANGED <<sdb, api_key, keyword_list, phrase_embeddings,
                   query_embedding>>
    /\ UNCHANGED <<runVars, embVars, poolVars, splitVars, loadVars, docVars,
                   scanVars, toolVars>>

NextLex == KeywordSearch

InitLex ==
    /\ RunOff /\ EmbOff /\ PoolOff /\ SplitOff /\ LoadOff /\ DocOff /\ ScanOff
    /\ ToolOff
    /\ \E n \in 1..MaxPoems :
          sdb = [poems |-> 1..n, lines |-> [p \in 1..n |-> <<>>]]
    /\ api_key \in BOOLEAN
    /\ request = NoRequest
    /\ qpc = "idle"
    /\ keyword_list = <<>>
    /\ phrase_embeddings = <<>>
    /\ query_embedding = <<>>
    /\ response = NoResponse

SpecLex == InitLex /\ [][NextLex]_vars

(***************************************************************************)
(* The connection pool of the retrieval service (DatabaseManager, lines    *)
(* 81-123) under concurrent requests.  A request's steps are taken one at  *)
(* a time, in any interleaving with the steps of the other requests.       *)
(***************************************************************************)
\* maxconn of the pool (config.MAX_CONNECTIONS, scaled down)
MaxConnections == 2

\* the concurrent requests of the model
Requests == {1, 2, 3}

\* the endpoints that take a connection
Endpoints == {"health", "keyword", "semantic"}

\* a request that has not arrived
NoHandler ==
    [endpoint |-> "none", pc |-> "new", conn |-> 0, raised |-> FALSE, puts |-> 0]

\* the connection stays checked out when the body raised
PutConnOnSuccess(used, h) == IF h.raised THEN used ELSE used \ {h.conn}

\* lines 115-117: the finally clause of get_connection,
\* self.pool.putconn(conn)
PutConn(used, h) == used \ {h.conn}

ConnInit ==
    /\ pool_used = {}
    /\ handlers = [r \in Requests |-> NoHandler]
    /\ cdb = [poems |-> {}, lines |-> <<>>]
    /\ data_status = NoStatus
    /\ choice = "none"
    /\ confirm = "none"
    /\ cpc = "off"
    /\ cleaned = FALSE
    /\ truncated_at = 0

\* Lines 107-110 on entering `with db_manager.get_connection() as conn`
\* (lines 234, 260, 376): pool.getconn() hands out a connection that is not
\* checked out, or raises PoolError when maxconn connections are; the
\* exception leaves get_connection with conn = None, so neither line 113 nor
\* line 117 does anything, and the endpoint answers (lines 239-241, 324-326,
\* 406-408).
GetConn(r) ==
    /\ handlers[r].pc = "new"
    /\ \E e \in Endpoints :
          IF Cardinality(pool_used) < MaxConnections
          THEN \E c \in (1..MaxConnections) \ pool_used :
                  /\ pool_used' = pool_used \cup {c}
                  /\ handlers' = [handlers EXCEPT ![r] =
                        [endpoint |-> e, pc |-> "body", conn |-> c,
                         raised |-> FALSE, puts |-> 0]]
          ELSE /\ pool_used' = pool_used
               /\ handlers' = [handlers EXCEPT ![r] =
                     [endpoint |-> e, pc |-> "done", conn |-> 0,
                      raised |-> TRUE, puts |-> 0]]
    /\ UNCHANGED <<cdb, data_status, choice, confirm, cpc, cleaned, truncated_at>>
    /\ UNCHANGED <<runVars, embVars, poolVars, splitVars, loadVars, docVars,
                   scanVars, searchVars>>

\* The body of the with block (lines 235-238, 261-320, 377-402): it ends
\* normally, or a statement raises and the exception is thrown into the
\* generator at the yield of line 110.
Body(r) ==
    /\ handlers[r].pc = "body"
    /\ \E ok \in BOOLEAN :
          handlers' = [handlers EXCEPT ![r].pc = IF ok THEN "finally" ELSE "except",
                                       ![r].raised = ~ok]
    /\ UNCHANGED <<pool_used, cdb, data_status, choice, confirm, cpc, cleaned,
                   truncated_at>>
    /\ UNCHANGED <<runVars, embVars, poolVars, splitVars, loadVars, docVars,
                   scanVars, searchVars>>

\* Lines 111-114: conn.rollback(), which may raise on a broken connection,
\* then `raise e`; either way an exception is on its way out through the
\* finally clause.
Except(r) ==
    /\ handlers[r].pc = "except"
    /\ handlers' = [handlers EXCEPT ![r].pc = "finally"]
    /\ UNCHANGED <<pool_used, cdb, data_status, choice, confirm, cpc, cleaned,
                   truncated_at>>
    /\ UNCHANGED <<runVars, embVars, poolVars, splitVars, loadVars, docVars,
                   scanVars, searchVars>>

\* Lines 115-117: the finally clause returns the connection; the request is
\* then answered.
Finally(r) ==
    /\ handlers[r].pc = "finally"
    /\ pool_used' = PutConn(pool_used, handlers[r])
    /\ handlers' = [handlers EXCEPT ![r].pc = "done",
                                    ![r].puts = handlers[r].puts + 1]
    /\ UNCHANGED <<cdb, data_status, choice, confirm, cpc, cleaned, truncated_at>>
    /\ UNCHANGED <<runVars, embVars, poolVars, splitVars, loadVars, docVars,
                   scanVars, searchVars>>

NextConn ==
    \/ \E r \in Requests : GetConn(r)
    \/ \E r \in Requests : Body(r)
    \/ \E r \in Requests : Except(r)
    \/ \E r \in Requests : Finally(r)

InitConn ==
    /\ RunOff /\ EmbOff /\ PoolOff /\ SplitOff /\ LoadOff /\ DocOff /\ ScanOff
    /\ SearchOff
    /\ ConnInit

SpecConn == InitConn /\ [][NextConn]_vars

(***************************************************************************)
(* The database cleaner (clean_database.py).  A store is a set of poem ids *)
(* and a sequence of lines; a line is [poem_id, dims], dims = 0 for a NULL *)
(* embedding and else vector_dims(embedding).                              *)
(***************************************************************************)
\* largest poem id of an explored store
MaxCleanPoems == 2

\* largest number of lines of an explored store
MaxCleanLines == 2

\* the dimension of the vectors of the schema (lines 118, 201)
ExpectedDims == 1536

\* a dimension other than the schema's
OtherDims == ExpectedDims - 512

\* the stores main may find: every line refers to a poem (foreign key)
CleanStores ==
    UNION {{[poems |-> ps, lines |-> ls] :
               ls \in UNION {[1..n -> [poem_id : ps, dims : {0, OtherDims, ExpectedDims}]] :
                                n \in 0..MaxCleanLines}} :
           ps \in SUBSET (1..MaxCleanPoems)}

\* lines 54-104
check_data_status(store) ==
    LET embedded == {i \in 1..Len(store.lines) : store.lines[i].dims # 0}
    IN  [poems_count |-> Cardinality(store.poems),
         lines_count |-> Len(store.lines),
         lines_with_embedding |-> Cardinality(embedded),
         orphan_poems |->
             Cardinality({p \in store.poems :
                             ~\E i \in 1..Len(store.lines) : store.lines[i].poem_id = p}),
         dimension_stats |->
             {[dimension |-> d,
               count |-> Cardinality({i \in embedded : store.lines[i].dims = d})] :
              d \in {store.lines[i].dims : i \in embedded}}]

\* the three conditions joined by `or`, whatever dimension_stats holds
need_clean_any(st) ==
    \/ st.orphan_poems > 0
    \/ st.lines_count - st.lines_with_embedding > 0
    \/ \E d \in st.dimension_stats : d.dimension # ExpectedDims

\* lines 198-202: the conditional expression binds more loosely than `or`,
\* so the value is (a or b or any(...)) if dimension_stats else False
need_clean(st) ==
    IF st.dimension_stats # {}
    THEN \/ st.orphan_poems > 0
         \/ st.lines_count - st.lines_with_embedding > 0
         \/ \E d \in st.dimension_stats : d.dimension # ExpectedDims
    ELSE FALSE

\* lines 106-131
clean_incomplete_data(store) ==
    LET kept == SelectSeq(store.lines, LAMBDA l : l.dims = ExpectedDims)
    IN  [poems |-> {p \in store.poems : \E i \in 1..Len(kept) : kept[i].poem_id = p},
         lines |-> kept]

\* lines 133-148
truncate_all_data(store) == [poems |-> {}, lines |-> <<>>]

CleanInit ==
    /\ pool_used = {}
    /\ handlers = <<>>
    /\ cdb \in CleanStores
    /\ data_status = NoStatus
    /\ choice = "none"
    /\ confirm = "none"
    /\ cpc = "start"
    /\ cleaned = FALSE
    /\ truncated_at = 0

\* line 185: status = cleaner.check_data_status(conn)
CheckStatus ==
    /\ cpc = "start"
    /\ data_status' = check_data_status(cdb)
    /\ cpc' = "menu"
    /\ UNCHANGED <<pool_used, handlers, cdb, choice, confirm, cleaned, truncated_at>>
    /\ UNCHANGED <<runVars, embVars, poolVars, splitVars, loadVars, docVars,
                   scanVars, searchVars>>

\* Lines 194-234: the choice and, where the code asks for it, the
\* confirmation (lower-cased).  The status checks of lines 209, 221 and 231
\* only log; their result is not kept.  VACUUM of line 172 may be refused
\* inside the transaction, which ends main through lines 236-239.
Menu ==
    /\ cpc = "menu"
    /\ \E c \in {"1", "2", "3", "4", "other"}, answer \in {"y", "n", "yes"}, ok \in BOOLEAN :
          /\ choice' = c
          /\ confirm' = IF (c = "1" /\ need_clean(data_status)) \/ c = "2"
                        THEN answer ELSE "none"
          /\ cdb' = IF c = "1" /\ need_clean(data_status) /\ answer = "y"
                    THEN clean_incomplete_data(cdb)
                    ELSE IF c = "2" /\ answer = "yes"
                    THEN truncate_all_data(cdb)
                    ELSE cdb
          /\ cleaned' = (c = "1" /\ need_clean(data_status) /\ answer = "y")
          /\ cpc' = IF c = "4" /\ ~ok THEN "raised" ELSE "done"
    /\ UNCHANGED <<pool_used, handlers, data_status, truncated_at>>
    /\ UNCHANGED <<runVars, embVars, poolVars, splitVars, loadVars, docVars,
                   scanVars, searchVars>>

NextClean == CheckStatus \/ Menu

InitClean ==
    /\ RunOff /\ EmbOff /\ PoolOff /\ SplitOff /\ LoadOff /\ DocOff /\ ScanOff
    /\ SearchOff
    /\ CleanInit

SpecClean == InitClean /\ [][NextClean]_vars

(***************************************************************************)
(* run_import and the cleaner's "start over" on the same store.            *)
(***************************************************************************)
\* Option 2 of the cleaner's main, confirmed (lines 215-221), between two
\* runs of the importer: truncate_all_data (lines 133-148) empties lines and
\* poems and commits; dynasties, authors and the importer's
\* processed_files.log are not touched.  One truncation per behaviour is
\* explored.
TruncateAll ==
    /\ pc = "done"
    /\ ~aborted
    /\ truncated_at = 0
    /\ run >= 1
    /\ db' = [db EXCEPT !.poems = {}, !.lines = {}]
    /\ truncated_at' = run
    /\ UNCHANGED <<corpus, log, tx, connOpen, pc, run, todo, pos, aborted,
                   logAtStart, logEnd1, toProcess, attempted, failedIn, touched,
                   rolledBack, lastFail, snap, dbAtStart, crashed, lastOutcome>>
    /\ UNCHANGED <<pool_used, handlers, cdb, data_status, choice, confirm, cpc,
                   cleaned>>
    /\ UNCHANGED <<embVars, poolVars, splitVars, loadVars, docVars, scanVars,
                   searchVars>>

\* the corpus of SpecCrash: every file holds records
InitReset == InitCrash

NextReset == NextRun \/ TruncateAll

SpecReset == InitReset /\ [][NextReset]_vars

(***************************************************************************)
(* Claims about run_import and process_and_insert_batch (checked under     *)
(* Spec).                                                                  *)
(***************************************************************************)
Count(l, f) == Cardinality({i \in 1..Len(l) : l[i] = f})

After(l, f) == {l[j] : j \in {k \in 1..Len(l) : \E i \in 1..(k - 1) : l[i] = f}}

\* C1: a file's path is in the checkpoint log only if every batch of the file
\* was committed or the file yielded no record; a file one of whose batches
\* was rolled back is not in the log.
C1_LoggedOnlyIfAllCommitted ==
    \A f \in Range(log) : f \notin rolledBack

\* C2: when a call of process_and_insert_batch fails at any step (dynasty or
\* author upsert, poem insert, embedding fan-out, line insert, commit), the
\* committed store afterwards is the committed store before the call, and
\* nothing the batch wrote is left in the open transaction to be committed
\* later.
C2_FailedBatchLeavesStore ==
    lastOutcome = "failed" => (db = snap /\ tx = EmptyStore)

\* C2 witness: a call failed at its commit, after the upserts and the poem
\* and line inserts, in a run that had committed rows before.
C2_Witness ==
    /\ lastOutcome = "failed"
    /\ lastFail = [step |-> "commit", kind |-> "dberror"]
    /\ \E p \in db.poems : p.run = run
    /\ connOpen

\* C3: a file whose path is in the log when run_import starts is skipped: the
\* run does not open it, sends no embedding request and writes no row for it,
\* and does not append its path again.
C3_LoggedFilesSkipped ==
    \A f \in Range(logAtStart) :
        /\ f \notin attempted
        /\ f \notin touched
        /\ \A p \in db.poems : p.file = f => p.run # run
        /\ Count(log, f) = Count(logAtStart, f)

\* C3 witness: a second run that found a logged file with committed poems
\* and still had another file to process.
C3_Witness ==
    /\ run = 2
    /\ pc = "done"
    /\ \E f \in Range(logAtStart) : \E p \in db.poems : p.file = f
    /\ attempted # {}

\* C4 as claimed: after the second run the log is what it was after the first
\* run, and no poem the first run committed has a second copy.
C4_Original ==
    (run = 2 /\ pc = "done") =>
        /\ log = logEnd1
        /\ \A p \in db.poems, q \in db.poems :
              (p.run = 1 /\ q.run = 2) => ~(p.file = q.file /\ p.idx = q.idx)

\* C4 amended: a run never reprocesses a file that was checkpointed before it
\* started (no path is appended twice, no poem of such a file is inserted
\* again); and when every source file that parses was checkpointed before the
\* run started, the run leaves the log and the committed store unchanged.
C4_IdempotentOnLoggedFiles ==
    run >= 2 =>
        /\ \A f \in Range(logAtStart) :
              /\ Count(log, f) = 1
              /\ \A p \in db.poems : p.file = f => p.run < run
        /\ (\A f \in Files : corpus[f].kind # "bad" => f \in Range(logAtStart))
              => (log = logAtStart /\ db = dbAtStart)

\* C4 witness: the second run ended, the first had checkpointed a file whose
\* poems are committed, and the log is unchanged although the second run had
\* a file to try.
C4_Witness ==
    /\ run = 2
    /\ pc = "done"
    /\ \E p \in db.poems : p.file \in Range(logAtStart)
    /\ \A f \in Files : corpus[f].kind # "bad" => f \in Range(logAtStart)
    /\ attempted # {}
    /\ log = logAtStart

\* C5: a failure in one file never blocks the others: when run_import ends,
\* every file of files_to_process that comes after a failing file was opened.
C5_FailureNeverBlocks ==
    pc = "done" =>
        \A f \in failedIn : After(toProcess, f) \subseteq attempted

(***************************************************************************)
(* Claims about get_batch_embeddings (checked under SpecEmb).              *)
(***************************************************************************)
EmbEnded == epc \in {"returned", "raised"}

\* C6: for every input batch the call returns a list of exactly len(texts)
\* entries in input order: absent at every blank position, blank inputs are
\* never sent, and after a successful answer the entry of the k-th non-blank
\* input is the vector the service returned with index k.
C6_SameLengthOrderPreserved ==
    /\ \A r \in Range(requests) : \A t \in Range(r) : IsValid(t)
    /\ EmbEnded =>
        /\ epc = "returned"
        /\ ~result.raised
        /\ Len(result.list) = Len(texts)
        /\ \A i \in 1..Len(texts) : ~IsValid(texts[i]) => result.list[i] = None
        /\ (resps # <<>> /\ resps[Len(resps)] = "ok") =>
              \A k \in 1..Len(valid_indices(texts)) : \A it \in body :
                  it.index = k - 1 =>
                      result.list[valid_indices(texts)[k]] = it.embedding

\* answers after which the claim expects another request
Transient == {"timeout", "http500", "nodata", "badbody"}

\* C7: a call sends at most max_retries requests; after a timeout, a server
\* error or a malformed body it sends another one while attempts remain; each
\* further request is preceded by a wait that is strictly longer than the
\* wait before; no request follows the first successful answer.
C7_BoundedRetriesGrowingDelay ==
    /\ Len(requests) <= max_retries
    /\ Len(resps) = Len(requests)
    /\ Len(requests) <= Len(sleeps) + 1
    /\ \A i \in 1..(Len(sleeps) - 1) : sleeps[i] < sleeps[i + 1]
    /\ \A i \in 1..(Len(resps) - 1) : resps[i] # "ok"
    /\ (EmbEnded /\ resps # <<>> /\ resps[Len(resps)] \in Transient)
          => Len(requests) = max_retries

\* C7 witness: a call that ended with the successful answer to its third
\* request, after a timeout and a malformed body.
C7_Witness ==
    /\ epc = "returned"
    /\ resps = <<"timeout", "badbody", "ok">>
    /\ Len(sleeps) = 2
    /\ \E i \in 1..Len(result.list) : result.list[i] # None

\* C8: a client-error answer other than rate limiting is not retried: no
\* request follows it, and the call returns absent for every input.
C8_ClientErrorNotRetried ==
    /\ \A i \in 1..Len(resps) :
          resps[i] \in {"http400", "http404"} => i = Len(resps)
    /\ (EmbEnded /\ resps # <<>> /\ resps[Len(resps)] \in {"http400", "http404"})
          => (epc = "returned" /\ result.list = NoneList(texts))

\* C9: when every attempt of a call fails, the call returns len(texts)
\* absent entries and does not raise.
C9_ExhaustedReturnsAllAbsent ==
    (EmbEnded /\ resps # <<>> /\ \A i \in 1..Len(resps) : resps[i] # "ok") =>
        /\ epc = "returned"
        /\ ~result.raised
        /\ Len(result.list) = Len(texts)
        /\ \A i \in 1..Len(texts) : result.list[i] = None

\* C9 witness: three failed attempts for a batch with a sentence and a blank.
C9_Witness ==
    /\ epc = "returned"
    /\ Len(resps) = max_retries
    /\ \A i \in 1..Len(resps) : resps[i] # "ok"
    /\ \E i \in 1..Len(texts) : IsValid(texts[i])
    /\ \E i \in 1..Len(texts) : ~IsValid(texts[i])

(***************************************************************************)
(* Claims about the embedding fan-out (checked under SpecPool).            *)
(***************************************************************************)
\* C10: for every order in which the sub-batches complete, the merged list is
\* in submission order: the entry at position j belongs to sentence j of the
\* flattened sentences (it is that sentence's vector, or absent).
C10_MergedInSubmissionOrder ==
    ppc = "merged" =>
        /\ Len(all_embeddings) = Len(all_sentences)
        /\ \A j \in 1..Len(all_sentences) :
              all_embeddings[j] \in {None, Emb(all_sentences[j])}

\* C10 witness: a merge after the last sub-batch completed first and was
\* handed over first, with every sentence embedded.
C10_Witness ==
    /\ ppc = "merged"
    /\ Len(arrival) >= 2
    /\ finished[1] = Len(fstate)
    /\ arrival[1] = Len(fstate)
    /\ \A j \in 1..Len(all_sentences) : all_embeddings[j] = Emb(all_sentences[j])

(***************************************************************************)
(* Claims about split_sentences (checked under SpecSplit).                 *)
(***************************************************************************)
RECURSIVE IsSubseq(_, _)
\* a is b with some characters left out
IsSubseq(a, b) ==
    IF a = <<>> THEN TRUE
    ELSE IF b = <<>> THEN FALSE
    ELSE IF Head(a) = Head(b) THEN IsSubseq(Tail(a), Tail(b))
    ELSE IsSubseq(a, Tail(b))

\* C19: every sentence split_sentences returns has at least 4 characters
\* after trimming, and the returned sentences follow each other as their
\* characters do in the source text (their concatenation is the source with
\* characters left out).
C19_SentencesLongAndInOrder ==
    spc = "returned" =>
        /\ \A i \in 1..Len(sentences) : Len(Strip(sentences[i])) >= MinSentenceLen
        /\ IsSubseq(Flatten(sentences), text)

\* C19 witness: two sentences were returned, the second from the second
\* segment, while a shorter piece of the text was discarded.
C19_Witness ==
    /\ spc = "returned"
    /\ Len(sentences) = 2
    /\ sentences[1] = Letters("a", 4)
    /\ sentences[2][1] = "b"
    /\ Len(sentences[2]) > 4
    /\ \E i \in 1..Len(text) : text[i] = "("

(***************************************************************************)
(* Claims about the rows process_and_insert_batch commits (checked under   *)
(* SpecLoad).                                                              *)
(***************************************************************************)
\* C11: every committed Line row carries an embedding: a sentence whose
\* embedding is absent after the fan-out is not inserted.
C11_EveryLineHasEmbedding ==
    /\ \A l \in tables.lines : l.embedding # None
    /\ committed =>
         Cardinality(tables.lines \ tablesBefore.lines)
            = Cardinality({k \in 1..Len(embeddings.list) :
                             embeddings.list[k] # None})

\* C11 witness: a committed call in which one sentence of a poem got its
\* vector and the other did not; only the first became a Line row.
C11_Witness ==
    /\ committed
    /\ Len(poem_batch) = 1
    /\ Len(embeddings.list) = 2
    /\ embeddings.list[1] # None
    /\ embeddings.list[2] = None
    /\ Cardinality(tables.lines \ tablesBefore.lines) = 1

\* C12: after calls in which no embedding and no database statement failed,
\* every committed Poem has at least one Line with an embedding.
C12_CompletePoemsHaveLines ==
    complete =>
        \A p \in tables.poems :
            \E l \in tables.lines : l.poem_id = p.id /\ l.embedding # None

\* C20: dynasty names and (author name, dynasty) pairs stay unique over the
\* committed rows, a call leaves every dynasty and author row that existed
\* before it as it was (same id, same columns), and after a committed call
\* every (author, dynasty) pair of the batch has its own author row under
\* the dynasty of that name.
C20_UpsertsKeepRowsUnique ==
    /\ \A d1, d2 \in tables.dynasties :
          (d1.name = d2.name \/ d1.id = d2.id) => d1 = d2
    /\ \A a1, a2 \in tables.authors :
          \/ a1 = a2
          \/ /\ a1.id # a2.id
             /\ (a1.name # a2.name \/ a1.dynasty_id # a2.dynasty_id)
    /\ tablesBefore.dynasties \subseteq tables.dynasties
    /\ tablesBefore.authors \subseteq tables.authors
    /\ committed =>
          \A i \in 1..Len(poem_batch) :
             \E d \in tables.dynasties, a \in tables.authors :
                /\ d.name = poem_batch[i].dynasty
                /\ a.name = poem_batch[i].author
                /\ a.dynasty_id = d.id

\* C20 witness: a committed call whose batch names a dynasty that existed
\* before it and an author that existed under another dynasty; the author
\* now has two rows, the old one unchanged.
C20_Witness ==
    /\ committed
    /\ \E d \in tablesBefore.dynasties, i \in 1..Len(poem_batch) :
          d.name = poem_batch[i].dynasty
    /\ \E a1 \in tablesBefore.authors, a2 \in tables.authors \ tablesBefore.authors :
          a1.name = a2.name /\ a1.dynasty_id # a2.dynasty_id

(***************************************************************************)
(* Claims about the import of one document (checked under SpecDoc).        *)
(***************************************************************************)
\* {title: "T", author: "A", dynasty: "D", paragraphs: ["一句。", "二句！"]}
ScenarioDoc ==
    JDict(<<KV("title", JStr(<<"T">>)), KV("author", FileAuthor),
            KV("dynasty", FileDynasty), KV("paragraphs", ShortParagraphs)>>)

\* the same document with clauses of four and five characters
LongScenarioDoc ==
    JDict(<<KV("title", JStr(<<"T">>)), KV("author", FileAuthor),
            KV("dynasty", FileDynasty), KV("paragraphs", LongParagraphs)>>)

\* the file of the document has been imported and checkpointed
Imported(d) == doc = d /\ dpc = "marked"

\* C13 as stated: the scenario document commits exactly 2 Line rows ("一句"
\* and "二句", each with an embedding) when the embedding call succeeds and
\* 0 Line rows when it fails.
C13_Original ==
    Imported(ScenarioDoc) =>
        IF complete
        THEN /\ Cardinality(tables.lines) = 2
             /\ {l.content : l \in tables.lines} = {<<"yi", "ju">>, <<"er", "ju">>}
             /\ \A l \in tables.lines : l.embedding # None
        ELSE tables.lines = {}

\* C13, amended: the scenario document commits no Line row whether the
\* embedding call succeeds or fails, because split_sentences discards both
\* clauses (2 characters each, below the minimum of 4) and no sentence is
\* sent to the embedding service; the same document with clauses of 4 and 5
\* characters commits one Line per clause, each with its embedding, when the
\* call succeeds and none when it fails.
C13_ShortClausesCommitNoLine ==
    /\ Imported(ScenarioDoc) => (tables.lines = {} /\ sentenceList = <<>>)
    /\ Imported(LongScenarioDoc) =>
         IF complete
         THEN /\ Cardinality(tables.lines) = 2
              /\ {l.content : l \in tables.lines}
                    = {Letters("a", 4), Letters("b", 5)}
              /\ \A l \in tables.lines : l.embedding = Emb(l.content)
         ELSE tables.lines = {}

\* C13 witness: the scenario document was imported with the embedding
\* service answering, and its Poem row is committed.
C13_Witness ==
    /\ Imported(ScenarioDoc)
    /\ committed
    /\ complete
    /\ Cardinality(tables.poems) = 1

\* C14: the scenario document commits exactly one Dynasty row ("D"), one
\* Author row ("A" under "D") and one Poem row whose full_content is
\* "一句。二句！", whether the embedding call succeeds or fails.
C14_ScenarioCommitsOneOfEach ==
    Imported(ScenarioDoc) =>
        /\ committed
        /\ \E d \in tables.dynasties, a \in tables.authors, p \in tables.poems :
              /\ tables.dynasties = {d}
              /\ tables.authors = {a}
              /\ tables.poems = {p}
              /\ d.name = <<"D">>
              /\ a.name = <<"A">>
              /\ a.dynasty_id = d.id
              /\ p.author_id = a.id
              /\ p.title = <<"T">>
              /\ p.full_content = <<"yi", "ju", "STOP", "er", "ju", "BANG">>

\* C14 witness: the scenario document was imported with the embedding
\* service failing.
C14_Witness ==
    /\ Imported(ScenarioDoc)
    /\ ~complete
    /\ Cardinality(tables.poems) = 1

\* C15: _extract_poems_from_data never raises and returns a list of records
\* (mappings), whatever the parsed value is.
C15_ExtractionNeverRaises ==
    /\ dpc # "raised"
    /\ \A i \in 1..Len(poems_list) : IsDict(poems_list[i].rec)

\* C15 witness: a mapping whose 'content' list holds an item that is no
\* mapping next to one whose own 'content' is no list was extracted.
C15_Witness ==
    /\ dpc \in {"process", "marked", "load"}
    /\ IsDict(doc)
    /\ \E i \in 1..Len(Get(doc, "content", JNull).l) :
          ~IsDict(Get(doc, "content", JNull).l[i])
    /\ poems_list # <<>>

\* the cleaning of line 290
CleanName(s) == Truncate(Convert(Strip(s)), NameLimit)

\* C16: a record made from an item without an author is stored with the
\* file-level fallback author if there is one, otherwise with the author
\* path_author_map gives for the path if a keyword of it occurs there,
\* otherwise with the placeholder.
C16_MissingAuthorFallsBack ==
    \A i \in 1..Len(outcomes) :
        (~outcomes[i].none /\ ~Has(poems_list[i].src, "author")) =>
            outcomes[i].poem.author =
                CleanName(IF Truthy(file_level_author) THEN file_level_author.s
                          ELSE IF \E k \in 1..Len(path_author_map) :
                                    Occurs(path_author_map[k].k, path)
                          THEN FirstMatch(path_author_map, path)
                          ELSE YiMing)

\* C17: a record made from an item without a dynasty gets no default from
\* the adapter: its stored dynasty is the one _infer_dynasty resolves from
\* the stored author and the path.
C17_MissingDynastyInferred ==
    \A i \in 1..Len(outcomes) :
        (~outcomes[i].none /\ ~Has(poems_list[i].src, "dynasty")) =>
            /\ ~Has(poems_list[i].rec, "dynasty")
            /\ outcomes[i].poem.dynasty =
                  _infer_dynasty(outcomes[i].poem.author, path, author_dynasty_map)

\* the periods of the entries of a table whose keyword occurs in the path
Periods(table) ==
    {table[k].v : k \in {j \in 1..Len(table) : Occurs(table[j].k, path)}}

\* C18: whenever _infer_dynasty is called, its result is the author's entry
\* of the frequency table if the author has one; else the period of a
\* classical-text keyword occurring in the path if there is one; else the
\* period of a path keyword occurring in the path if there is one; else the
\* unknown sentinel.
C18_InferencePriority ==
    \A i \in 1..Len(outcomes) :
        outcomes[i].inferred =>
            LET a == outcomes[i].poem.author
                d == outcomes[i].poem.dynasty
            IN  IF a \in DOMAIN author_dynasty_map THEN d = author_dynasty_map[a]
                ELSE IF Periods(classical_texts) # {}
                THEN d \in Periods(classical_texts)
                ELSE IF Periods(path_keyword_map) # {}
                THEN d \in Periods(path_keyword_map)
                ELSE d = WeiZhi

\* C18 witness: an author outside the table under a path in which a
\* classical-text keyword and a path keyword of another period occur; the
\* classical text decided.
C18_Witness ==
    /\ dpc \in {"load", "marked"}
    /\ \E i \in 1..Len(outcomes) :
          /\ outcomes[i].inferred
          /\ outcomes[i].poem.author \notin DOMAIN author_dynasty_map
          /\ outcomes[i].poem.dynasty = <<"gu", "dai">>
    /\ Periods(path_keyword_map) = {<<"tang", "dai">>}

(***************************************************************************)
(* Claims about failures and crashes of run_import (checked under Spec).   *)
(***************************************************************************)
\* C26: when a step inside process_and_insert_batch fails, the call does not
\* return normally: run_import is on its per-file error path (the file is
\* given up, the loop goes on with the next file) and is not continuing with
\* the rest of the file or checkpointing it.
C26_FailurePropagates ==
    lastOutcome = "failed" => (pc = "loop" /\ ~aborted)

\* C27: if the process is killed after a file's last batch has committed and
\* before the file's path is appended to the checkpoint log, the next run has
\* the file among its files to process, and once it has gone through the file
\* without a failure every poem of the file that the killed run committed is
\* in the store a second time (the copy of the killed run and the copy of
\* this run).
C27_CrashBeforeCheckpointDuplicates ==
    (crashed.file # 0 /\ run = crashed.run + 1) =>
        LET f == crashed.file IN
            /\ f \in Range(toProcess)
            /\ \E p \in db.poems : p.file = f /\ p.run = crashed.run
            /\ (f \in Range(log) /\ f \notin failedIn) =>
                  \A p \in db.poems :
                      (p.file = f /\ p.run = crashed.run) =>
                          \E q \in db.poems :
                              q.file = f /\ q.idx = p.idx /\ q.run = run

\* C27 witness: the run after the kill has checkpointed the file without a
\* failure, and the store holds two copies of one of its poems.
C27_Witness ==
    /\ crashed.file # 0
    /\ run = crashed.run + 1
    /\ crashed.file \in Range(log)
    /\ crashed.file \notin failedIn
    /\ \E p \in db.poems, q \in db.poems :
          /\ p.file = crashed.file /\ q.file = crashed.file
          /\ p.idx = q.idx /\ p.run = crashed.run /\ q.run = run

(***************************************************************************)
(* Claims about the length of the stored fields (checked under SpecDoc).   *)
(***************************************************************************)
\* C25: for every record that process_poem_data accepts, however long its
\* input fields are, the returned title has at most 500 characters and the
\* returned author and dynasty at most 200 each; and a record is not rejected
\* for the length of its fields: every record of a document with fields at
\* or over the limits is accepted.
C25_FieldsTruncated ==
    /\ \A i \in 1..Len(outcomes) :
          ~outcomes[i].none =>
              /\ Len(outcomes[i].poem.title) <= 500
              /\ Len(outcomes[i].poem.author) <= 200
              /\ Len(outcomes[i].poem.dynasty) <= 200
    /\ (doc \in LongFieldDocs /\ dpc \in {"load", "marked"}) =>
          /\ outcomes # <<>>
          /\ \A i \in 1..Len(outcomes) : ~outcomes[i].none

\* C25 witness: a document whose title has 501 characters and whose author
\* and dynasty have 201 was imported; the stored title has 500 characters and
\* the stored names 200.
C25_Witness ==
    /\ dpc = "marked"
    /\ doc \in LongFieldDocs
    /\ \E i \in 1..Len(poems_list) :
          /\ Len(Strip(Get(poems_list[i].rec, "title", JNull).s)) = 501
          /\ Len(Strip(Get(poems_list[i].rec, "author", JNull).s)) = 201
          /\ Len(Get(poems_list[i].rec, "dynasty", JNull).s) = 201
    /\ \E p \in tables.poems : Len(p.title) = 500
    /\ \E a \in tables.authors : Len(a.name) = 200
    /\ \E d \in tables.dynasties : Len(d.name) = 200

(***************************************************************************)
(* Claims about the pre-scan (checked under SpecScan).                     *)
(***************************************************************************)
\* the (author, dynasty) pairs of the records of every readable source file,
\* in the order of the files
CorpusPairs ==
    Flatten([i \in 1..Len(scanFiles) |->
                IF scanFiles[i].kind = "ok"
                THEN ScanPairs(_extract_poems_from_data(scanFiles[i].doc).poems)
                ELSE <<>>])

\* C28: the author-to-dynasty frequency table is built from every source
\* file of the corpus, the files in the checkpoint log included, before
\* run_import commits any row; it is not modified while files are loaded; a
\* file that cannot be read or parsed contributes nothing and does not abort
\* the pre-scan.
C28_TableBuiltFromWholeCorpusFirst ==
    /\ scpc # "raised"
    /\ scpc = "scan" => tables = EmptyTables
    /\ scpc \in {"ready", "import", "done"} =>
          /\ author_dynasty_map = mapAtReady
          /\ author_dynasty_map = _create_author_dynasty_map(CorpusPairs)
          /\ \A i \in 1..Len(CorpusPairs) :
                CorpusPairs[i][1] \in DOMAIN author_dynasty_map

\* C28 witness: run_import has committed a poem while a readable file that
\* the checkpoint log held from the start (the loop has not reached it) gave
\* the table its entry, and another file could not be read.
C28_Witness ==
    /\ scpc = "import"
    /\ tables.poems # {}
    /\ \E i \in checkpoint :
          /\ i > loaded
          /\ scanFiles[i].kind = "ok"
          /\ ScanPairs(_extract_poems_from_data(scanFiles[i].doc).poems) # <<>>
    /\ \E i \in 1..Len(scanFiles) : scanFiles[i].kind # "ok"
    /\ author_dynasty_map # <<>>

(***************************************************************************)
(* Claims about semantic search (checked under SpecSearch).                *)
(***************************************************************************)
\* the request was a semantic search and it was answered with results
Answered == request.kind = "semantic" /\ response.status = 200

\* the distances of the embedded lines of poem p to the query vector
LineDistances(p) == {Distance(e, query_embedding) : e \in Embedded(sdb, p)}

\* the poems that have a line with an embedding
Ranked == {p \in sdb.poems : Embedded(sdb, p) # {}}

\* C22: semantic search ranks each document by the smallest cosine distance
\* between the query vector and the vectors of the document's lines (its best
\* sentence, not an average), returns each document at most once, and the
\* page is the window [offset, offset + limit) of the documents in ascending
\* order of that distance.
C22_RankedByBestSentence ==
    Answered =>
        LET rows == response.rows IN
            /\ Len(response.results) = Len(rows)
            /\ \A k \in 1..Len(rows) :
                  /\ response.results[k].id = rows[k].id
                  /\ rows[k].id \in Ranked
                  /\ rows[k].distance \in LineDistances(rows[k].id)
                  /\ \A d \in LineDistances(rows[k].id) : rows[k].distance <= d
            /\ \A j \in 1..Len(rows), k \in 1..Len(rows) :
                  j < k => /\ rows[j].id # rows[k].id
                           /\ rows[j].distance <= rows[k].distance
            /\ Len(rows) <= request.limit
            /\ Len(rows) < request.limit =>
                  Len(rows) + request.offset >= Cardinality(Ranked)
            /\ \A k \in 1..Len(rows) :
                  Cardinality({r \in Groups(sdb, query_embedding) :
                                 r.distance < rows[k].distance})
                      < request.offset + k

\* C22 witness: a page of two documents at different distances, the first of
\* which has two embedded lines at different distances from the query.
C22_Witness ==
    /\ Answered
    /\ Len(response.rows) = 2
    /\ response.rows[1].distance < response.rows[2].distance
    /\ Cardinality(LineDistances(response.rows[1].id)) = 2

\* C23: the score of every result of a semantic search is 1 minus the
\* result's distance (to the four decimals the response carries), for every
\* distance, a distance of exactly 0 included.
C23_ScoreIsOneMinusDistance ==
    Answered =>
        \A k \in 1..Len(response.rows) :
            LET diff == response.results[k].score
                            - (One - response.rows[k].distance)
            IN  -5 <= diff /\ diff <= 5

\* C24: when every embedding request for the phrases of a semantic query
\* fails, the request ends with status 503.
C24_EmbeddingFailureIs503 ==
    (/\ request.kind = "semantic"
     /\ qpc = "done"
     /\ phrase_embeddings # <<>>
     /\ \A k \in 1..Len(phrase_embeddings) : phrase_embeddings[k] = None)
        => response.status = 503

\* C29 as claimed: the total of a semantic search is the number of lines that
\* have an embedding, capped.
C29_Original ==
    Answered => response.total = Min(CountEmbeddedLines(sdb), 1000)

\* C29 amended: the total of a semantic search is the number of documents
\* that have at least one line with an embedding, capped at 1000; it is the
\* same for every query.
C29_TotalCountsDocuments ==
    Answered => response.total = Min(Cardinality(Ranked), 1000)

\* C29 witness: a search on a store of 1001 documents with an embedded line
\* was answered with the total 1000.
C29_Witness ==
    /\ Answered
    /\ Cardinality(Ranked) = 1001
    /\ response.total = 1000

\* C30: a semantic search is answered only from a query vector that is the
\* arithmetic mean of one embedding per phrase of the query: every phrase
\* got its embedding and the mean is over all of them.
C30_QueryVectorFromAllPhrases ==
    Answered =>
        /\ \A k \in 1..Len(keyword_list) : phrase_embeddings[k] # None
        /\ query_embedding =
              Mean([k \in 1..Len(keyword_list) |-> EmbeddingOf(keyword_list[k])])

(***************************************************************************)
(* Claims about keyword search (checked under SpecLex).                    *)
(***************************************************************************)
\* C21: in the result of a keyword search no document id appears twice, also
\* when the document is matched by both the full-text operator and the
\* trigram operator.
C21_NoIdTwice ==
    (request.kind = "keyword" /\ response.status = 200) =>
        \A j \in 1..Len(response.results), k \in 1..Len(response.results) :
            j # k => response.results[j].id # response.results[k].id

\* C21 witness: a document that both operators match, with different scores,
\* is on a page of two results.
C21_Witness ==
    /\ request.kind = "keyword"
    /\ response.status = 200
    /\ Len(response.results) = 2
    /\ \E k \in 1..2 :
          LET p == response.results[k].id
          IN  /\ p \in request.engine.fulltext \cap request.engine.fuzzy
              /\ request.engine.ts_rank[p] # request.engine.similarity[p]

(***************************************************************************)
(* Claims about the frequency table and the path keywords (checked under   *)
(* SpecDoc).                                                               *)
(***************************************************************************)
RECURSIVE DynastyFields(_)
\* the truthy values under the key 'dynasty' anywhere in a document
DynastyFields(v) ==
    CASE v.t = "dict" ->
           UNION {(IF v.d[i].k = "dynasty" /\ Truthy(v.d[i].v)
                   THEN {CleanName(Str(v.d[i].v))} ELSE {})
                  \cup DynastyFields(v.d[i].v) : i \in 1..Len(v.d)}
      [] v.t = "list" -> UNION {DynastyFields(v.l[i]) : i \in 1..Len(v.l)}
      [] OTHER -> {}

\* the dynasties of the pairs found in the other files of the corpus
OtherDynasties ==
    UNION {{others[i][2] : i \in 1..Len(others)} : others \in OtherPairs}

\* C35: the frequency table holds only dynasties that stand in the dynasty
\* field of some source record; a default the adapter gives to a record
\* without a dynasty never enters the table.
C35_TableHoldsExplicitDynastiesOnly ==
    \A a \in DOMAIN author_dynasty_map :
        author_dynasty_map[a] \in DynastyFields(doc) \cup OtherDynasties

\* keyword `short` is a proper substring of keyword `long` (over the keys of
\* path_keyword_map, lines 103-108)
Within(short, long) ==
    <<short, long>> \in {<<"tang", "nantang">>, <<"tang", "quan_tang_shi">>,
                         <<"yuan", "yuanqu">>, <<"jin", "shijing">>,
                         <<"jin", "sishuwujing">>}

\* the entries of path_keyword_map whose keyword occurs in the path and is
\* within no other keyword that occurs there
MostSpecific ==
    {j \in Matches(path_keyword_map, path) :
        \A k \in Matches(path_keyword_map, path) :
            ~Within(path_keyword_map[j].k, path_keyword_map[k].k)}

\* C36: when _infer_dynasty is called for an author outside the frequency
\* table under a path without a classical-text keyword but with a path
\* keyword, its result is the period of a most specific path keyword of the
\* path: 'nantang' wins over 'tang'.
C36_MostSpecificKeywordWins ==
    \A i \in 1..Len(outcomes) :
        (/\ outcomes[i].inferred
         /\ outcomes[i].poem.author \notin DOMAIN author_dynasty_map
         /\ Matches(classical_texts, path) = {}
         /\ Matches(path_keyword_map, path) # {}) =>
            outcomes[i].poem.dynasty \in
                {path_keyword_map[j].v : j \in MostSpecific}

(***************************************************************************)
(* Claims about the answers get_batch_embeddings copes with (checked under *)
(* SpecEmb).                                                               *)
(***************************************************************************)
\* C34: get_batch_embeddings returns normally for every answer of the
\* embedding service, an accepted body with more or fewer vectors than the
\* non-blank inputs or with items that lack a field included: no call ends
\* with an exception, which the worker pool would hand on.
C34_NeverRaises ==
    /\ epc # "raised"
    /\ ~result.raised

(***************************************************************************)
(* Claims about the references of the committed rows (checked under        *)
(* SpecLoad).                                                              *)
(***************************************************************************)
\* C32: every committed Poem row has an author_id that is not NULL, and it
\* is the id of the Author row whose name is the author of the record the
\* poem was made from and whose dynasty row has the record's dynasty as its
\* name.
C32_PoemRefersToItsAuthor ==
    \A p \in tables.poems :
        /\ p.author_id # 0
        /\ \E rec \in PoemPool :
              /\ rec.title = p.title
              /\ rec.content = p.full_content
              /\ \E a \in tables.authors, d \in tables.dynasties :
                    /\ a.id = p.author_id
                    /\ a.name = rec.author
                    /\ d.id = a.dynasty_id
                    /\ d.name = rec.dynasty

\* C32 witness: a committed batch of two poems of the same author under two
\* dynasties; the two Poem rows refer to different Author rows.
C32_Witness ==
    /\ committed
    /\ Len(poem_batch) = 2
    /\ poem_batch[1].author = poem_batch[2].author
    /\ poem_batch[1].dynasty # poem_batch[2].dynasty
    /\ \E p1, p2 \in tables.poems \ tablesBefore.poems :
          /\ p1.title = poem_batch[1].title
          /\ p2.title = poem_batch[2].title
          /\ p1.author_id # p2.author_id

C31_WorkersBoundedLoaderOwnsDb ==
    /\ Cardinality(Running) <= MaxWorkers
    /\ \A s \in issued : s.thread = "loader"
    /\ ppc = "idle" =>
          /\ conn_tx \in {"none", "committed", "rolledback"}
          /\ \A i \in 1..Len(fstate) : fstate[i] = "done"
    /\ conn_tx = "open" <=> ppc \in {"start", "collect", "merged", "skipped",
                                     "failed"}

\* C31 witness: a call of three sub-batches was rolled back after a worker's
\* exception was re-raised before every future had been handed over; every
\* worker had ended by then.
C31_Witness ==
    /\ ppc = "idle"
    /\ batch_no = 1
    /\ conn_tx = "rolledback"
    /\ Len(fstate) >= 3
    /\ Len(arrival) < Len(fstate)
    /\ \E i \in Range(arrival) : fresult[i].raised
    /\ \A i \in 1..Len(fstate) : fstate[i] = "done"

(***************************************************************************)
(* Claims about the connection pool of the retrieval service (checked      *)
(* under SpecConn).                                                        *)
(***************************************************************************)
\* the requests that hold a connection
Holding == {r \in Requests : handlers[r].pc \in {"body", "except", "finally"}}

\* C37: in every interleaving of concurrent search and health requests, a
\* connection taken by get_connection is returned exactly once, whether the
\* body ended normally or raised: the checked-out connections are those of
\* the requests inside their with block, never more than the pool's maximum,
\* and none when no request is in flight.
C37_ConnectionsReturnedOnce ==
    /\ pool_used = {handlers[r].conn : r \in Holding}
    /\ \A r1, r2 \in Holding : r1 # r2 => handlers[r1].conn # handlers[r2].conn
    /\ Cardinality(pool_used) <= MaxConnections
    /\ \A r \in Requests :
          handlers[r].puts = IF handlers[r].pc = "done" /\ handlers[r].conn # 0
                             THEN 1 ELSE 0
    /\ Holding = {} => pool_used = {}

\* C37 witness: every request is answered; the body of one raised, one found
\* the pool exhausted, and no connection is checked out.
C37_Witness ==
    /\ \A r \in Requests : handlers[r].pc = "done"
    /\ \E r \in Requests : handlers[r].conn # 0 /\ handlers[r].raised
    /\ \E r \in Requests : handlers[r].conn # 0 /\ ~handlers[r].raised
    /\ \E r \in Requests : handlers[r].conn = 0
    /\ pool_used = {}

(***************************************************************************)
(* Claims about the database cleaner (checked under SpecClean).            *)
(***************************************************************************)
\* C38: when option 1 was chosen and the status check found a poem without
\* lines, or a line without an embedding, or a vector whose dimension is not
\* 1536, main has asked for the confirmation, and with the answer y it has
\* run clean_incomplete_data.
C38_AnyConditionCleans ==
    (cpc = "done" /\ choice = "1" /\ need_clean_any(data_status)) =>
        /\ confirm # "none"
        /\ confirm = "y" => cleaned

(***************************************************************************)
(* Claims about starting over (checked under SpecReset).                   *)
(***************************************************************************)
\* C39: when a run of run_import that began after truncate_all_data has come
\* to its end without a failure, every file of the corpus that holds records
\* has poems in the committed store.
C39_RunAfterTruncateRepopulates ==
    (truncated_at # 0 /\ run > truncated_at /\ pc = "done" /\ ~aborted
       /\ failedIn = {}) =>
        \A f \in Files :
            (corpus[f].kind = "recs" /\ corpus[f].n >= 1) =>
                \E row \in db.poems : row.file = f

=============================================================================
